---- MODULE Spec2Model ----
(***************************************************************************)
(* The per-room coordinator (ChatRoom) of workers-chat-puzzle: session     *)
(* registry and broadcast, the turtle-soup confirmation handshake, turn    *)
(* rotation and the AI-host overlay.  Each action is one event of the      *)
(* Durable Object: an accepted websocket, one inbound message, a close, a  *)
(* timer callback, or the reply of the narration call.                     *)
(***************************************************************************)
EXTENDS Integers, Sequences, FiniteSets, TLC

\* ---------------------------------------------------------------- bounds
MaxConn == 3        \* websockets accepted by the room
MaxTickets == 2     \* initiate requests that open a ticket
MaxTs == 2          \* largest message timestamp assigned
MaxClock == 1       \* largest reading of Date.now()
MaxBroken == 1      \* websockets dead at once with their close event still to come
MaxInflight == 1    \* narration calls outstanding at once
MaxTimers == 2      \* timers armed at once
MaxTurnInput == 3   \* largest turnIndex a client submits
MaxQueue == 3       \* messages queued for a session before its handshake
MaxProxies == 2     \* rate-limiter proxies calling the limiter
MaxConsumes == 33   \* consume calls one limiter serves
MaxAsked == 7       \* questions put to the narrator in one long game
MaxTime == 2        \* largest reading of the limiter's clock, in seconds
MaxGated == 3       \* consume calls served while the room takes messages

\* ------------------------------------------------------- program constants
BacklogLimit == 100          \* storage.list({reverse: true, limit: 100})
ConfirmTimeoutMs == 30000    \* confirmation expiry
AIResponseDelayMs == 1000    \* staged turn result
TurnChangeDelayMs == 500     \* staged turn-change notice
AITurnChangeDelayMs == 2000  \* staged turn-change notice, AI overlay
BaseScore == 5               \* generateAIResponse: base score
ShortQuestionLen == 5        \* generateAIResponse: "very short" threshold
MaxMessageLen == 256         \* safeString(data.message, 256)
MaxNameLen == 32             \* safeString(data.name || 'anonymous', 32)
SolutionReady == 95          \* progress_thresholds.solution_ready
LimiterUnit == 1             \* RateLimiter.fetch: seconds added per action
GracePeriod == 30            \* RateLimiter.fetch: seconds of grace
FallbackScore == 3           \* createFallbackResponse: score
FallbackPenalty == 5         \* createFallbackResponse: progress taken off
MaxChange == 15              \* smoothProgress: maxChange
MinChange == -10             \* smoothProgress: minChange
KeywordMatchBonus == 10      \* progress.keywordMatchBonus
DirectQuestionBonus == 15    \* progress.directQuestionBonus
WrongDirectionPenalty == -5  \* progress.wrongDirectionPenalty
HighScore == 6               \* applyGameLogic: "score > 6"

Names == {"A", "B", "C"}     \* identities clients claim or name in messages
None == "none"               \* null / undefined identity
NaN == -1                    \* an index that is no number: the NaN of (i + 1) % 0,
                             \* the undefined of a turnIndex field left out

\* The chat texts clients send: each is what generateAIResponse reads of it.
Texts == { [len |-> 8, kw |-> "why"] }
\* Participant lists a requesting client submits with turtleSoupRequest.
ClientLists == { <<>>, <<"C", "A">> }
\* Outcomes of the narration collaborator for one question: processQuestion
\* refuses it (success false); the call of the language model fails; or the
\* model replies, and answer, score and progress are those of its reply as
\* validateResponse hands them to applyGameLogic.
AIOutcomes ==
  { [success |-> FALSE, llm |-> "none", answer |-> "none", score |-> 0, progress |-> 0],
    [success |-> TRUE, llm |-> "failed", answer |-> "none", score |-> 0, progress |-> 0],
    [success |-> TRUE, llm |-> "replied", answer |-> "yes", score |-> 7, progress |-> 100],
    [success |-> TRUE, llm |-> "replied", answer |-> "unrelated", score |-> 7, progress |-> 0] }

\* The outcome of a narration call whose language-model call failed.
FailedCall ==
  [success |-> TRUE, llm |-> "failed", answer |-> "none", score |-> 0, progress |-> 0]

VARIABLES
  sessions,              \* this.sessions: websocket -> session (insertion order = id order)
  nextWs,                \* websockets accepted so far (ids 1..nextWs)
  connState,             \* per accepted websocket: "open" | "broken" | "closed"
  attachments,           \* per websocket not yet closed: its serialized attachment
  gameStateInitialized,
  turtleSoupActive, turtleSoupParticipants, turtleSoupInitiator, currentTurnIndex,
  pendingConfirmations,  \* initiator -> [confirmedUsers, originalParticipants, id]
  userScores,            \* name -> [totalScore, questionCount]
  currentPuzzle,
  aiHostActive, aiHostInitiator, aiHostParticipants,
  aiHost,                \* "null" | "idle" (handle, no session) | "active"
  currentSession,        \* aiHost.currentSession: [questionCount, progress]
  lastTimestamp,
  msgLog,                \* storage: timestamp key -> persisted message record
  snapshot,              \* storage: the value under the 'gameState' key, if any
  timers,                \* armed setTimeout callbacks, in arming order
  aiCalls,               \* narration calls awaiting their reply
  ticketSeq,             \* tickets opened so far (names each ticket)
  outbox,                \* the sends of the last event, in order
  clock,                 \* Date.now() / 1000 as the limiters and proxies read it
  nextAllowedTime,       \* per RateLimiter object (one per id): its field
  served,                \* per RateLimiter object: its consume calls so far and the last one
  inCooldown,            \* per RateLimiterClient: its field
  callLimiter            \* per RateLimiterClient: where its callLimiter() stands,
                         \* and its calls of reportError so far

roomVars == <<sessions, nextWs, connState, attachments, gameStateInitialized, turtleSoupActive,
              turtleSoupParticipants, turtleSoupInitiator, currentTurnIndex,
              pendingConfirmations, userScores, currentPuzzle, aiHostActive,
              aiHostInitiator, aiHostParticipants, aiHost, currentSession,
              lastTimestamp, msgLog, snapshot, timers, aiCalls, ticketSeq, outbox>>

limiterVars == <<clock, nextAllowedTime, served, inCooldown, callLimiter>>

vars == <<roomVars, limiterVars>>

\* ---------------------------------------------------------------- helpers
Range(s) == { s[i] : i \in DOMAIN s }

Max(a, b) == IF a >= b THEN a ELSE b

Min(a, b) == IF a <= b THEN a ELSE b

\* The members of a set of small naturals, ascending: Map iteration order for
\* websockets (numbered as accepted), key order for timestamps.
SortedSeq(S) ==
  SelectSeq([i \in 1..(MaxConn + MaxTs + 1) |-> i], LAMBDA w : w \in S)

\* Array.prototype.filter
RECURSIVE Filter(_, _)
Filter(s, x) ==
  IF s = <<>> THEN <<>>
  ELSE IF Head(s) = x THEN Filter(Tail(s), x)
       ELSE <<Head(s)>> \o Filter(Tail(s), x)

\* (a % n) of JavaScript on the numbers the room computes.
JsMod(a, n) == IF a = NaN \/ n = 0 THEN NaN ELSE a % n

\* participants[i] (undefined when i is no index of the array)
At(arr, i) == IF i + 1 \in DOMAIN arr THEN arr[i + 1] ELSE None

\* --------------------------------------------------------- rate-limiter ids
\* The address a websocket connects from: the first two share one.
IpOf(ws) == IF ws <= 2 THEN "ip1" ELSE "ip2"

\* env.limiters.idFromName(ip), id.toString(), env.limiters.idFromString(hex)
IdFromName(ip) == [id |-> ip]

IdToString(id) == [hex |-> id.id]

IdFromString(str) == [id |-> str.hex]

\* The proxies (one RateLimiterClient per websocket) and the limiter each is
\* bound to.
Proxies == 1..MaxProxies

KeyOf(p) == IdFromName(IpOf(p))

LimiterKeys == { KeyOf(p) : p \in Proxies }

\* ---------------------------------------------------------------- messages
Joined(n) == [type |-> "joined", name |-> n]
Quit(n) == [type |-> "quit", name |-> n]
Ready == [type |-> "ready"]
ErrorMsg(text) == [type |-> "error", message |-> text]

\* Error texts that reach clients through broadcast() rather than sendError().
BroadcastErrors == {"request timeout", "ai error", "ai internal error"}

\* The room's state as one value: every handler below maps a state to the
\* state it leaves behind.
Cur ==
  [ sessions |-> sessions, nextWs |-> nextWs, connState |-> connState,
    attachments |-> attachments,
    gameStateInitialized |-> gameStateInitialized,
    turtleSoupActive |-> turtleSoupActive,
    turtleSoupParticipants |-> turtleSoupParticipants,
    turtleSoupInitiator |-> turtleSoupInitiator,
    currentTurnIndex |-> currentTurnIndex,
    pendingConfirmations |-> pendingConfirmations,
    userScores |-> userScores, currentPuzzle |-> currentPuzzle,
    aiHostActive |-> aiHostActive, aiHostInitiator |-> aiHostInitiator,
    aiHostParticipants |-> aiHostParticipants, aiHost |-> aiHost,
    currentSession |-> currentSession,
    lastTimestamp |-> lastTimestamp, msgLog |-> msgLog, snapshot |-> snapshot,
    timers |-> timers, aiCalls |-> aiCalls, ticketSeq |-> ticketSeq,
    outbox |-> outbox ]

Becomes(s) ==
  /\ sessions' = s.sessions
  /\ nextWs' = s.nextWs
  /\ connState' = s.connState
  /\ attachments' = s.attachments
  /\ gameStateInitialized' = s.gameStateInitialized
  /\ turtleSoupActive' = s.turtleSoupActive
  /\ turtleSoupParticipants' = s.turtleSoupParticipants
  /\ turtleSoupInitiator' = s.turtleSoupInitiator
  /\ currentTurnIndex' = s.currentTurnIndex
  /\ pendingConfirmations' = s.pendingConfirmations
  /\ userScores' = s.userScores
  /\ currentPuzzle' = s.currentPuzzle
  /\ aiHostActive' = s.aiHostActive
  /\ aiHostInitiator' = s.aiHostInitiator
  /\ aiHostParticipants' = s.aiHostParticipants
  /\ aiHost' = s.aiHost
  /\ currentSession' = s.currentSession
  /\ lastTimestamp' = s.lastTimestamp
  /\ msgLog' = s.msgLog
  /\ snapshot' = s.snapshot
  /\ timers' = s.timers
  /\ aiCalls' = s.aiCalls
  /\ ticketSeq' = s.ticketSeq
  /\ outbox' = s.outbox

\* An event starts with nothing sent yet.
Event(s) == [s EXCEPT !.outbox = << >>]

\* ---------------------------------------------------------------- sending
Dead(s) == { w \in 1..s.nextWs : s.connState[w] = "broken" }

Named(s) == { w \in DOMAIN s.sessions : s.sessions[w].name # None }

\* webSocket.send(m) where a throw is swallowed (sendError) or cannot happen.
Send(s, ws, m) ==
  IF ws \in Dead(s) THEN s
  ELSE [s EXCEPT !.outbox = Append(@, [to |-> ws, msg |-> m])]

\* sendError(webSocket, message)
SendError(s, ws, text) == Send(s, ws, ErrorMsg(text))

\* The sessions one pass of broadcast()'s forEach sends to.
\* (Without the test of session.name it would be every live session.)
ReceiversMutNoNameCheck(s) == DOMAIN s.sessions \ Dead(s)

Receivers(s) == Named(s) \ Dead(s)

\* One pass of broadcast()'s forEach: sessions left, sends made, quitters found.
BroadcastOnce(s, m) ==
  LET quitters == SortedSeq(Named(s) \cap Dead(s))
      to == SortedSeq(Receivers(s))
  IN [ state |->
         [s EXCEPT
            !.sessions = [ w \in DOMAIN s.sessions \ Range(quitters) |->
                             IF s.sessions[w].name = None
                             THEN [s.sessions[w] EXCEPT !.blockedMessages = Append(@, m)]
                             ELSE s.sessions[w] ],
            !.outbox = @ \o [i \in 1..Len(to) |-> [to |-> to[i], msg |-> m]]],
       quitters |-> [i \in 1..Len(quitters) |-> s.sessions[quitters[i]].name] ]

RECURSIVE Broadcast(_, _)
RECURSIVE BroadcastQuits(_, _)
BroadcastQuits(s, qs) ==
  IF qs = <<>> THEN s
  ELSE BroadcastQuits(Broadcast(s, Quit(Head(qs))), Tail(qs))

\* broadcast(message)
Broadcast(s, m) ==
  LET r == BroadcastOnce(s, m)
  IN BroadcastQuits(r.state, r.quitters)

\* ---------------------------------------------------------------- storage
\* No overlay session: aiHost.currentSession is null (its counters read 0).
NoSession == [questionCount |-> 0, progress |-> 0]

\* JSON.stringify of a number: NaN is written as null.
JsonNull == -2

StringifyNumber(n) == IF n = NaN THEN JsonNull ELSE n

\* (parsed || 0) of a number read back by JSON.parse
ParseNumberOrZero(j) == IF j = JsonNull THEN 0 ELSE j

\* Array.from(map.entries()) and new Map(entries)
Entries(m) == { <<k, m[k]>> : k \in DOMAIN m }

MapOf(entries) ==
  [k \in { e[1] : e \in entries } |-> (CHOOSE e \in entries : e[1] = k)[2]]

\* The JSON text saveGameState() builds from the fields (its write-only
\* timestamp field, which nothing reads back, is left out).
Snapshot(s) ==
  [ turtleSoupActive |-> s.turtleSoupActive,
    turtleSoupParticipants |-> s.turtleSoupParticipants,
    turtleSoupInitiator |-> s.turtleSoupInitiator,
    currentTurnIndex |-> StringifyNumber(s.currentTurnIndex),
    currentPuzzle |-> s.currentPuzzle,
    aiHostActive |-> s.aiHostActive,
    aiHostInitiator |-> s.aiHostInitiator,
    aiHostParticipants |-> s.aiHostParticipants,
    userScores |-> Entries(s.userScores) ]

\* saveGameState(): the text is put under the 'gameState' key.  While the
\* fields are still undefined, userScores.entries() throws and nothing is put.
SaveGameState(s) ==
  IF ~s.gameStateInitialized THEN s
  ELSE [s EXCEPT !.snapshot = {Snapshot(s)}]

\* initializeDefaultGameState()
InitializeDefaultGameState(s) ==
  [s EXCEPT
     !.turtleSoupActive = FALSE,
     !.turtleSoupParticipants = << >>,
     !.turtleSoupInitiator = None,
     !.currentTurnIndex = 0,
     !.pendingConfirmations = << >>,
     !.userScores = << >>,
     !.currentPuzzle = None,
     !.aiHostActive = FALSE,
     !.aiHostInitiator = None,
     !.aiHostParticipants = << >>,
     !.aiHost = "null",
     !.currentSession = NoSession]

\* restoreGameState(): the stored text never carries aiHostData, so no
\* narration handle is recreated.
RestoreGameState(s) ==
  IF s.snapshot = {} THEN InitializeDefaultGameState(s)
  ELSE LET state == CHOOSE g \in s.snapshot : TRUE
       IN [s EXCEPT
             !.turtleSoupActive = state.turtleSoupActive,
             !.turtleSoupParticipants = state.turtleSoupParticipants,
             !.turtleSoupInitiator = state.turtleSoupInitiator,
             !.currentTurnIndex = ParseNumberOrZero(state.currentTurnIndex),
             !.currentPuzzle = state.currentPuzzle,
             !.aiHostActive = state.aiHostActive,
             !.aiHostInitiator = state.aiHostInitiator,
             !.aiHostParticipants = state.aiHostParticipants,
             !.userScores = MapOf(state.userScores),
             !.pendingConfirmations = << >>]

\* storage.list({reverse: true, limit: 100}), reversed again: the last entries
\* in key order; the key 'gameState' sorts after every ISO timestamp key.
Backlog(s) ==
  LET keys == SortedSeq(DOMAIN s.msgLog)
      msgs == [i \in 1..Len(keys) |-> s.msgLog[keys[i]]]
      all == IF s.snapshot = {} THEN msgs
             ELSE Append(msgs, [ type |-> "gameState",
                                 state |-> CHOOSE g \in s.snapshot : TRUE ])
      n == Len(all)
  IN SubSeq(all, Max(1, n - BacklogLimit + 1), n)

\* ---------------------------------------------------------------- Init
\* The constructor followed by initializeDefaultGameState().
Init ==
  /\ sessions = << >>
  /\ nextWs = 0
  /\ connState = << >>
  /\ attachments = << >>
  /\ gameStateInitialized = FALSE
  /\ turtleSoupActive = FALSE
  /\ turtleSoupParticipants = << >>
  /\ turtleSoupInitiator = None
  /\ currentTurnIndex = 0
  /\ pendingConfirmations = << >>
  /\ userScores = << >>
  /\ currentPuzzle = None
  /\ aiHostActive = FALSE
  /\ aiHostInitiator = None
  /\ aiHostParticipants = << >>
  /\ aiHost = "null"
  /\ currentSession = NoSession
  /\ lastTimestamp = 0
  /\ msgLog = << >>
  /\ snapshot = {}
  /\ timers = << >>
  /\ aiCalls = << >>
  /\ ticketSeq = 0
  /\ outbox = << >>
  /\ clock = 0
  /\ nextAllowedTime = [k \in LimiterKeys |-> 0]
  /\ served = [k \in LimiterKeys |->
                 [ count |-> 0, first |-> 0, now |-> 0, before |-> 0,
                   nextAllowedTime |-> 0, cooldown |-> 0 ]]
  /\ inCooldown = [p \in Proxies |-> FALSE]
  /\ callLimiter = [p \in Proxies |-> [at |-> "idle", wake |-> 0, reports |-> 0]]

\* ------------------------------------------------------------ connections
\* handleSession(webSocket, ip), reached from fetch("/websocket")
HandleSession(s) ==
  LET ws == s.nextWs + 1
      limiterId == IdFromName(IpOf(ws))
      roster == SortedSeq(Named(s))
      joins == [i \in 1..Len(roster) |-> Joined(s.sessions[roster[i]].name)]
      s0 == IF s.gameStateInitialized THEN s
            ELSE [RestoreGameState(s) EXCEPT !.gameStateInitialized = TRUE]
  IN [s0 EXCEPT
        !.nextWs = ws,
        !.connState = [w \in 1..ws |-> IF w = ws THEN "open" ELSE s.connState[w]],
        !.attachments = [w \in DOMAIN s.attachments \cup {ws} |->
                           IF w = ws
                           THEN [limiterId |-> IdToString(limiterId), name |-> None]
                           ELSE s.attachments[w]],
        !.sessions = [w \in DOMAIN s.sessions \cup {ws} |->
                        IF w = ws
                        THEN [name |-> None, limiter |-> limiterId,
                              blockedMessages |-> joins \o Backlog(s)]
                        ELSE s.sessions[w]]]

\* closeOrErrorHandler(webSocket), reached from webSocketClose / webSocketError
\* (Were the name read from the websocket's attachment, a connection that a
\* broadcast had already removed would be announced again.)
CloseOrErrorHandlerMutNameOfAttachment(s, ws) ==
  LET name == IF ws \in DOMAIN s.attachments THEN s.attachments[ws].name ELSE None
      gone == [s EXCEPT
                 !.connState[ws] = "closed",
                 !.attachments = [w \in DOMAIN s.attachments \ {ws} |-> s.attachments[w]],
                 !.sessions = [w \in DOMAIN s.sessions \ {ws} |-> s.sessions[w]]]
  IN IF name # None THEN Broadcast(gone, Quit(name)) ELSE gone

CloseOrErrorHandler(s, ws) ==
  LET name == IF ws \in DOMAIN s.sessions THEN s.sessions[ws].name ELSE None
      gone == [s EXCEPT
                 !.connState[ws] = "closed",
                 !.attachments = [w \in DOMAIN s.attachments \ {ws} |-> s.attachments[w]],
                 !.sessions = [w \in DOMAIN s.sessions \ {ws} |-> s.sessions[w]]]
  IN IF name # None THEN Broadcast(gone, Quit(name)) ELSE gone

\* restoreWebSocketSessions(): a session for every websocket the runtime still
\* holds whose attachment carries a limiterId, built from the attachment alone.
\* (Were the attachment's name not copied, every session would come back
\* unregistered.)
RestoreWebSocketSessionsMutNoName(s) ==
  LET held == { w \in DOMAIN s.attachments : "limiterId" \in DOMAIN s.attachments[w] }
  IN [s EXCEPT !.sessions =
        [w \in held |-> [ name |-> None,
                          limiter |-> IdFromString(s.attachments[w].limiterId),
                          blockedMessages |-> << >> ]]]

RestoreWebSocketSessions(s) ==
  LET held == { w \in DOMAIN s.attachments : "limiterId" \in DOMAIN s.attachments[w] }
  IN [s EXCEPT !.sessions =
        [w \in held |-> [ name |-> s.attachments[w].name,
                          limiter |-> IdFromString(s.attachments[w].limiterId),
                          blockedMessages |-> << >> ]]]

\* The object is evicted (or hibernates) and is constructed again for the next
\* event: memory, timers and pending calls are gone, storage and the accepted
\* websockets with their attachments stay.  The game fields are undefined
\* until initializeGameStates() runs: they read as falsy, and a method call on
\* one throws.
Restart(s) ==
  RestoreWebSocketSessions(
    [InitializeDefaultGameState(s) EXCEPT
       !.sessions = << >>,
       !.lastTimestamp = 0,
       !.gameStateInitialized = FALSE,
       !.timers = << >>,
       !.aiCalls = << >>,
       !.outbox = << >>])

\* An identity claim of 40 characters, and its first 32; every other claim
\* is one character long.
LongName == "AAAAAAAAAAAAAAAAAAAAAAAAAAAAAAAAAAAAAAAA"

CutName == "AAAAAAAAAAAAAAAAAAAAAAAAAAAAAAAA"

NameLength(name) ==
  IF name = LongName THEN 40 ELSE IF name = CutName THEN MaxNameLen ELSE 1

\* safeString(value, 32) of an identity claim: value.slice(0, 32) if longer.
SafeName(value, maxLength) ==
  IF NameLength(value) > maxLength THEN CutName ELSE value

\* handleUserSetup(webSocket, session, data); after webSocket.close() the
\* server's end is shut and the close event is still to come.
HandleUserSetup(s, ws, data) ==
  LET userName == SafeName(data.name, MaxNameLen)
      queued == s.sessions[ws].blockedMessages
      s1 == [s EXCEPT
               !.sessions[ws] = [@ EXCEPT !.name = userName, !.blockedMessages = << >>],
               !.attachments[ws] = [@ EXCEPT !.name = userName],
               !.outbox = @ \o [i \in 1..Len(queued) |-> [to |-> ws, msg |-> queued[i]]]]
      s2 == Broadcast(s1, Joined(userName))
      s3 == IF data.requestGameState /\ (s2.turtleSoupActive \/ s2.aiHostActive)
            THEN Send(s2, ws,
                      [ type |-> "gameStateSync",
                        turtleSoupActive |-> s2.turtleSoupActive,
                        turtleSoupParticipants |-> s2.turtleSoupParticipants,
                        turtleSoupInitiator |-> s2.turtleSoupInitiator,
                        currentTurnIndex |-> s2.currentTurnIndex,
                        aiHostActive |-> s2.aiHostActive,
                        aiHostInitiator |-> s2.aiHostInitiator,
                        aiHostParticipants |-> s2.aiHostParticipants,
                        currentPuzzle |-> s2.currentPuzzle ])
            ELSE s2
  IN IF NameLength(userName) > MaxNameLen
     THEN [SendError(s, ws, "name too long") EXCEPT !.connState[ws] = "broken"]
     ELSE Send(s3, ws, Ready)

\* ---------------------------------------------------------------- handshake
\* The online identities, deduplicated, in session order (Array.from(Set)).
RECURSIVE Dedup(_)
Dedup(names) ==
  IF names = <<>> THEN <<>>
  ELSE LET front == Dedup(SubSeq(names, 1, Len(names) - 1))
           last == names[Len(names)]
       IN IF last \in Range(front) THEN front ELSE Append(front, last)

OnlineUsers(s) ==
  LET ws == SortedSeq(Named(s))
  IN Dedup([i \in 1..Len(ws) |-> s.sessions[ws[i]].name])

\* The list handleTurtleSoupRequest stores in the ticket and broadcasts.
\* (Trusting the client it would be data.participants.)
ActualParticipantsMutClientList(s, data) == data.participants

ActualParticipants(s, data) == OnlineUsers(s)

\* The guard of handleTurtleSoupRequest against a second ticket per initiator.
\* (Without the guard a second request would always open a ticket.)
HasPendingMutNever(s, initiator) == FALSE

HasPending(s, initiator) == initiator \in DOMAIN s.pendingConfirmations

\* handleTurtleSoupRequest(session, data)
HandleTurtleSoupRequest(s, ws, data) ==
  IF s.turtleSoupActive THEN SendError(s, ws, "already active")
  ELSE IF ~s.gameStateInitialized   \* pendingConfirmations is undefined: TypeError
  THEN SendError(s, ws, "internal server error")
  ELSE IF HasPending(s, data.initiator) THEN s
  ELSE
    LET actualParticipants == ActualParticipants(s, data)
        id == s.ticketSeq + 1
        ticket == [ confirmedUsers |-> {},
                    originalParticipants |-> actualParticipants,
                    id |-> id ]
        s1 == [s EXCEPT
                 !.ticketSeq = id,
                 !.pendingConfirmations =
                    [k \in DOMAIN s.pendingConfirmations \cup {data.initiator} |->
                       IF k = data.initiator THEN ticket
                       ELSE s.pendingConfirmations[k]]]
        s2 == Broadcast(s1, [ type |-> "turtleSoupRequest",
                              initiator |-> data.initiator,
                              participants |-> actualParticipants ])
    IN [s2 EXCEPT !.timers = Append(@, [ kind |-> "confirm",
                                         delay |-> ConfirmTimeoutMs,
                                         initiator |-> data.initiator,
                                         id |-> id ])]

\* pendingConfirmations.delete(initiator)
\* (A delete that is left out keeps the map as it is.)
WithoutMutKeep(f, k) == f

Without(f, k) == [x \in DOMAIN f \ {k} |-> f[x]]

\* The setTimeout callback armed by handleTurtleSoupRequest.
ConfirmTimeout(s, t) ==
  IF t.initiator \in DOMAIN s.pendingConfirmations
  THEN Broadcast([s EXCEPT !.pendingConfirmations = Without(@, t.initiator)],
                 ErrorMsg("request timeout"))
  ELSE s

\* startTurtleSoup(initiator, participants)
StartTurtleSoup(s, initiator, participants) ==
  LET s1 == [s EXCEPT
               !.turtleSoupActive = TRUE,
               !.turtleSoupInitiator = initiator,
               !.turtleSoupParticipants = participants,
               !.currentTurnIndex = 0,
               !.userScores = [p \in Range(participants) |->
                                 [totalScore |-> 0, questionCount |-> 0]]]
  IN Broadcast(SaveGameState(s1), [ type |-> "turtleSoupStart",
                                    initiator |-> initiator,
                                    participants |-> participants ])

\* confirmationData.originalParticipants: the list the request stored.
\* (A live recount would read the registry instead.)
OriginalParticipantsMutLive(s, ticket) == OnlineUsers(s)

OriginalParticipants(s, ticket) == ticket.originalParticipants

\* originalParticipants.filter(user => user !== data.initiator)
RequiredConfirmations(s, ticket, initiator) ==
  Filter(OriginalParticipants(s, ticket), initiator)

\* handleTurtleSoupConfirmation(session, data)
HandleTurtleSoupConfirmation(s, ws, data) ==
  IF ~s.gameStateInitialized        \* pendingConfirmations is undefined: TypeError
  THEN SendError(s, ws, "internal server error")
  ELSE IF data.initiator \notin DOMAIN s.pendingConfirmations THEN s
  ELSE
    LET ticket == s.pendingConfirmations[data.initiator]
        echo == [ type |-> "turtleSoupConfirm", initiator |-> data.initiator,
                  confirmed |-> data.confirmed, user |-> data.user ]
    IN IF ~data.confirmed
       THEN Broadcast([s EXCEPT !.pendingConfirmations = Without(@, data.initiator)],
                      echo)
       ELSE IF data.user \in ticket.confirmedUsers THEN s
       ELSE
         LET confirmedUsers == ticket.confirmedUsers \cup {data.user}
             s1 == Broadcast([s EXCEPT !.pendingConfirmations[data.initiator]
                                          .confirmedUsers = confirmedUsers],
                             echo)
         IN IF Cardinality(confirmedUsers)
                 = Len(RequiredConfirmations(s, ticket, data.initiator))
            THEN LET s2 == StartTurtleSoup(s1, data.initiator,
                                           OriginalParticipants(s, ticket))
                 IN [s2 EXCEPT !.pendingConfirmations = Without(@, data.initiator)]
            ELSE s1

\* handleTurtleSoupTurnChange(session, data)
HandleTurtleSoupTurnChange(s, ws, data) ==
  IF ~s.turtleSoupActive \/ s.sessions[ws].name # s.turtleSoupInitiator THEN s
  ELSE Broadcast([s EXCEPT !.currentTurnIndex = data.turnIndex],
                 [ type |-> "turtleSoupTurnChange", turnIndex |-> data.turnIndex,
                   nextPlayer |-> data.nextPlayer ])

\* AIHost.cleanup(): the overlay's session is dropped, the handle stays.
Cleanup(h) == IF h = "null" THEN "null" ELSE "idle"

\* endAIHostMode()
EndAIHostMode(s) ==
  LET s1 == [s EXCEPT
               !.aiHost = Cleanup(s.aiHost),
               !.currentSession = NoSession,
               !.aiHostActive = FALSE,
               !.aiHostInitiator = None,
               !.aiHostParticipants = << >>]
  IN Broadcast(SaveGameState(s1),
               [type |-> "aiHostEnd", hadSession |-> s.aiHost = "active"])

\* endTurtleSoup(): its first five assignments ...
ClearTurtleSoup(s) ==
  [s EXCEPT
     !.turtleSoupActive = FALSE,
     !.turtleSoupParticipants = << >>,
     !.turtleSoupInitiator = None,
     !.currentTurnIndex = 0,
     !.userScores = << >>]

\* ... the room as its call of endAIHostMode() returns ...
EndTurtleSoupOverlay(s) ==
  LET s1 == ClearTurtleSoup(s)
  IN IF s1.aiHostActive THEN EndAIHostMode(s1) ELSE s1

\* ... and the whole of it.
EndTurtleSoup(s) ==
  Broadcast(SaveGameState(EndTurtleSoupOverlay(s)), [type |-> "turtleSoupEnd"])

\* handleTurtleSoupEnd(session, data)
\* (Without the comparison of session.name any session could end the game.)
HandleTurtleSoupEndMutAnyone(s, ws) ==
  IF ~s.turtleSoupActive THEN s ELSE EndTurtleSoup(s)

HandleTurtleSoupEnd(s, ws) ==
  IF ~s.turtleSoupActive \/ s.sessions[ws].name # s.turtleSoupInitiator THEN s
  ELSE EndTurtleSoup(s)

\* ---------------------------------------------------------------- turns
Puzzles == {"p1"}            \* ids PuzzleManager.getPuzzleById knows

\* safeString(value, maxLength): the text cut to maxLength characters.
SafeString(text, maxLength) == [text EXCEPT !.len = Min(@, maxLength)]

\* generateAIResponse(question).score
GenerateAIResponseScore(question) ==
  LET byKeyword == IF question.kw = "why" THEN BaseScore + 2
                   ELSE IF question.kw = "yesno" THEN BaseScore + 1
                   ELSE BaseScore
      byLength == IF question.len < ShortQuestionLen THEN byKeyword - 1 ELSE byKeyword
  IN Max(1, Min(10, byLength))

\* updateUserScore(userName, score)
UpdateUserScore(scores, userName, score) ==
  LET old == IF userName \in DOMAIN scores THEN scores[userName]
             ELSE [totalScore |-> 0, questionCount |-> 0]
  IN [n \in DOMAIN scores \cup {userName} |->
        IF n = userName
        THEN [totalScore |-> old.totalScore + score,
              questionCount |-> old.questionCount + 1]
        ELSE scores[n]]

\* Math.max(Date.now(), this.lastTimestamp + 1)
\* (Taken from the clock alone, a reading not after the last one would repeat
\* or go back.)
NextTimestampMutClockOnly(s, now) == now

NextTimestamp(s, now) == Max(now, s.lastTimestamp + 1)

\* The check both turn handlers make before accepting a turn text.
IsCurrentPlayer(s, name) ==
  At(s.turtleSoupParticipants, s.currentTurnIndex) = name

\* The index the turn handlers store after an accepted turn.
\* (Without the increment the turn would stay where it is.)
AdvanceTurnMutStay(s) == s.currentTurnIndex

AdvanceTurn(s) ==
  IF s.currentTurnIndex = NaN THEN NaN
  ELSE JsMod(s.currentTurnIndex + 1, Len(s.turtleSoupParticipants))

\* handleTurtleSoupMessage(session, messageData) with scheduleAIResponse
HandleTurtleSoupMessage(s, ws, messageData) ==
  IF ~IsCurrentPlayer(s, s.sessions[ws].name) THEN s
  ELSE LET score == GenerateAIResponseScore(messageData.message)
       IN [s EXCEPT
             !.userScores = UpdateUserScore(@, s.sessions[ws].name, score),
             !.currentTurnIndex = AdvanceTurn(s),
             !.timers = Append(@, [ kind |-> "aiResponse",
                                    delay |-> AIResponseDelayMs,
                                    score |-> score ])]

\* The first setTimeout callback of scheduleAIResponse.
AIResponseTimeout(s, t, now) ==
  LET ts == NextTimestamp(s, now)
      s1 == Broadcast(s, [ type |-> "chat", name |-> "AI", aiResponse |-> TRUE,
                           score |-> t.score, timestamp |-> ts ])
  IN [s1 EXCEPT
        !.lastTimestamp = ts,
        !.timers = Append(@, [kind |-> "turnChange", delay |-> TurnChangeDelayMs])]

\* The second setTimeout callback of scheduleAIResponse.
TurnChangeTimeout(s) ==
  Broadcast(s, [ type |-> "turtleSoupTurnChange",
                 turnIndex |-> s.currentTurnIndex,
                 nextPlayer |-> At(s.turtleSoupParticipants, s.currentTurnIndex),
                 userScores |-> s.userScores ])

\* The setTimeout callback of handleTurtleSoupAIMessage.
AITurnChangeTimeout(s) ==
  Broadcast(SaveGameState(s),
            [ type |-> "turtleSoupTurnChange",
              turnIndex |-> s.currentTurnIndex,
              nextPlayer |-> At(s.turtleSoupParticipants, s.currentTurnIndex) ])

\* handleTurtleSoupAIMessage after processAIHostQuestion has returned.
AfterAIQuestion(s) ==
  [s EXCEPT
     !.currentTurnIndex = AdvanceTurn(s),
     !.timers = Append(@, [kind |-> "aiTurnChange", delay |-> AITurnChangeDelayMs])]

\* processAIHostQuestion(userId, question) up to its narration call: without a
\* handle it throws, without an overlay session processQuestion refuses; both
\* are broadcast as errors at once.  Otherwise the call is outstanding.
ProcessAIHostQuestion(s, userId, question, turtle) ==
  IF s.aiHost = "null"
  THEN LET s1 == Broadcast(s, ErrorMsg("ai internal error"))
       IN IF turtle THEN AfterAIQuestion(s1) ELSE s1
  ELSE IF s.aiHost = "idle"
  THEN LET s1 == Broadcast(s, ErrorMsg("ai error"))
       IN IF turtle THEN AfterAIQuestion(s1) ELSE s1
  ELSE [s EXCEPT !.aiCalls = Append(@, [ user |-> userId, question |-> question,
                                         turtle |-> turtle ])]

\* AIHost.createFallbackResponse(question)
\* (Without the deduction the fallback would leave the progress where it was.)
CreateFallbackResponseMutNoPenalty(session) ==
  [answer |-> "unrelated", score |-> FallbackScore, progress |-> session.progress]

CreateFallbackResponse(session) ==
  [ answer |-> "unrelated", score |-> FallbackScore,
    progress |-> Max(0, session.progress - FallbackPenalty) ]

\* AIHost.hasKeywordMatch(question): the question holds a keyword of the puzzle.
HasKeywordMatch(question) == question.kw \in {"clue", "yesno clue"}

\* AIHost.isDirectQuestion(question): the question has a yes/no pattern.
IsDirectQuestion(question) == question.kw \in {"yesno", "yesno clue"}

\* AIHost.smoothProgress(previousProgress, newProgress)
\* (Without the limit on the change only the range 0..100 is kept.)
SmoothProgressMutNoLimit(previousProgress, newProgress) ==
  Max(0, Min(100, newProgress))

SmoothProgress(previousProgress, newProgress) ==
  LET change == Max(MinChange, Min(MaxChange, newProgress - previousProgress))
  IN Max(0, Min(100, previousProgress + change))

\* AIHost.applyGameLogic(response, question, isDuplicate): the progress of
\* the response (adjustments of score and feedback change no progress).
ApplyGameLogic(session, response, question) ==
  LET p1 == IF HasKeywordMatch(question)
            THEN Min(100, response.progress + KeywordMatchBonus)
            ELSE response.progress
      p2 == IF IsDirectQuestion(question)
            THEN Min(100, p1 + DirectQuestionBonus) ELSE p1
      p3 == IF response.answer = "unrelated" /\ response.score > HighScore
            THEN Max(0, p2 + WrongDirectionPenalty) ELSE p2
  IN [response EXCEPT !.progress = SmoothProgress(session.progress, p3)]

\* AIHost.processAIResponse(question, isDuplicate, userId): the response of
\* the language model after the game logic, or the fallback when its call
\* throws.
ProcessAIResponse(session, outcome, question) ==
  IF outcome.llm = "failed" THEN CreateFallbackResponse(session)
  ELSE ApplyGameLogic(session,
                      [ answer |-> outcome.answer, score |-> outcome.score,
                        progress |-> outcome.progress ],
                      question)

\* AIHost.updateGameState(question, response, userId)
UpdateGameState(session, response) ==
  [session EXCEPT !.questionCount = @ + 1, !.progress = response.progress]

\* AIHost.checkIfSolved(response)
CheckIfSolved(response) == response.progress >= SolutionReady

\* The rest of processAIHostQuestion once the narration call has replied, and
\* of handleTurtleSoupAIMessage when the question was a turn.
AIReply(s, call, outcome) ==
  LET response == ProcessAIResponse(s.currentSession, outcome, call.question)
      s0 == [s EXCEPT !.currentSession = UpdateGameState(@, response)]
      s1 == IF s.aiHost # "active" \/ ~outcome.success
            THEN Broadcast(s, ErrorMsg("ai error"))
            ELSE IF CheckIfSolved(response)
            THEN EndAIHostMode(Broadcast(s0, [type |-> "aiGameSolved"]))
            ELSE Broadcast(s0, [ type |-> "aiResponse", questioner |-> call.user,
                                 question |-> call.question,
                                 response |-> response,
                                 gameState |-> s0.currentSession ])
  IN IF call.turtle THEN AfterAIQuestion(s1) ELSE s1

\* handleTurtleSoupAIMessage(session, messageData) up to the narration call
HandleTurtleSoupAIMessage(s, ws, messageData) ==
  IF ~IsCurrentPlayer(s, s.sessions[ws].name) THEN s
  ELSE ProcessAIHostQuestion(s, s.sessions[ws].name, messageData.message, TRUE)

\* handleChatMessage(webSocket, session, data); now is Date.now()
HandleChatMessage(s, ws, data, now) ==
  LET message == SafeString(data.message, MaxMessageLen)
  IN IF message.len > MaxMessageLen THEN SendError(s, ws, "message too long")
     ELSE
       LET messageData == [ type |-> "chat", name |-> s.sessions[ws].name,
                            message |-> message,
                            timestamp |-> NextTimestamp(s, now),
                            turtleSoupMessage |-> data.turtleSoupMessage,
                            aiHostQuestion |-> data.aiHostQuestion ]
           s1 == [s EXCEPT !.lastTimestamp = messageData.timestamp]
       IN IF /\ messageData.turtleSoupMessage /\ messageData.aiHostQuestion
             /\ s1.turtleSoupActive /\ s1.aiHostActive
          THEN HandleTurtleSoupAIMessage(s1, ws, messageData)
          ELSE IF s1.aiHostActive /\ ~messageData.turtleSoupMessage
          THEN ProcessAIHostQuestion(s1, s1.sessions[ws].name, message, FALSE)
          ELSE
            LET s2 == IF /\ messageData.turtleSoupMessage /\ s1.turtleSoupActive
                         /\ ~s1.aiHostActive
                      THEN HandleTurtleSoupMessage(s1, ws, messageData)
                      ELSE s1
                s3 == Broadcast(s2, messageData)
            IN [s3 EXCEPT !.msgLog =
                  [k \in DOMAIN s3.msgLog \cup {messageData.timestamp} |->
                     IF k = messageData.timestamp THEN messageData
                     ELSE s3.msgLog[k]]]

\* ---------------------------------------------------------------- AI overlay
\* AIHost.createGameSession(puzzle)
CreateGameSession == [questionCount |-> 0, progress |-> 0]

\* createAIHost(env) when there is no handle yet.
EnsureAIHost(h) == IF h = "null" THEN "idle" ELSE h

\* handleTurtleSoupPuzzleSelected(session, data)
HandleTurtleSoupPuzzleSelected(s, ws, data) ==
  IF ~s.turtleSoupActive \/ s.sessions[ws].name # s.turtleSoupInitiator
  THEN SendError(s, ws, "only the initiator selects")
  ELSE IF data.puzzleId \notin Puzzles
  THEN SendError(s, ws, "puzzle load failed")
  ELSE
    LET s1 == [s EXCEPT !.aiHost = EnsureAIHost(@)]
    IN IF s1.aiHost = "active"
       THEN SendError(s1, ws, "ai start failed")
       ELSE
         LET s2 == [s1 EXCEPT
                      !.aiHost = "active",
                      !.currentSession = CreateGameSession,
                      !.aiHostActive = TRUE,
                      !.aiHostInitiator = data.initiator,
                      !.aiHostParticipants = s.turtleSoupParticipants,
                      !.currentPuzzle = data.puzzleId]
         IN Broadcast(SaveGameState(s2),
                      [ type |-> "turtleSoupPuzzleStart",
                        initiator |-> data.initiator,
                        participants |-> s.turtleSoupParticipants,
                        puzzle |-> data.puzzleId ])

\* handleAIHostRequest(session, data)
HandleAIHostRequest(s, ws, data) ==
  IF s.aiHostActive THEN SendError(s, ws, "ai already active")
  ELSE IF s.turtleSoupActive THEN SendError(s, ws, "turtle soup active")
  ELSE
    LET s1 == [s EXCEPT !.aiHost = EnsureAIHost(@)]
    IN IF s1.aiHost = "active" \/ data.puzzleId \notin Puzzles
       THEN SendError(s1, ws, "ai start failed")
       ELSE
         LET online == SortedSeq(Named(s1))
             participants == [i \in 1..Len(online) |-> s1.sessions[online[i]].name]
             s2 == [s1 EXCEPT
                      !.aiHost = "active",
                      !.currentSession = CreateGameSession,
                      !.aiHostActive = TRUE,
                      !.aiHostInitiator = s.sessions[ws].name,
                      !.aiHostParticipants = participants]
         IN Broadcast(s2, [ type |-> "aiHostStart",
                            initiator |-> s.sessions[ws].name,
                            participants |-> participants,
                            puzzle |-> data.puzzleId ])

\* handleAIHostEnd(session, data)
HandleAIHostEnd(s, ws) ==
  IF ~s.aiHostActive THEN SendError(s, ws, "not in ai mode")
  ELSE IF s.sessions[ws].name # s.aiHostInitiator
  THEN SendError(s, ws, "only the initiator ends")
  ELSE EndAIHostMode(s)

\* ---------------------------------------------------------------- actions
\* The caps that keep the counters of the model finite.
WithinBounds(s) ==
  /\ s.ticketSeq <= MaxTickets
  /\ s.lastTimestamp <= MaxTs
  /\ Len(s.timers) <= MaxTimers
  /\ Len(s.aiCalls) <= MaxInflight
  /\ \A w \in DOMAIN s.sessions : Len(s.sessions[w].blockedMessages) <= MaxQueue

Step(s) == WithinBounds(s) /\ Becomes(s) /\ UNCHANGED limiterVars

\* webSocketMessage's preamble: the socket has a live session.
CanReceive(ws) ==
  /\ ws \in DOMAIN sessions
  /\ connState[ws] = "open"

\* ... and the session has registered its identity.
Registered(ws) == CanReceive(ws) /\ sessions[ws].name # None

\* A timer may fire once no timer armed before it is due earlier or together.
CanFire(i) ==
  /\ i \in DOMAIN timers
  /\ \A j \in 1..(i - 1) : timers[j].delay > timers[i].delay

Disarm(s, i) ==
  [s EXCEPT !.timers = SubSeq(s.timers, 1, i - 1) \o SubSeq(s.timers, i + 1, Len(s.timers))]

Clock == 0..MaxClock         \* readings of Date.now()

Connect == nextWs < MaxConn /\ Step(HandleSession(Event(Cur)))

\* The transport of an accepted websocket dies; its close event comes later.
Break(ws) ==
  /\ ws \in 1..nextWs
  /\ connState[ws] = "open"
  /\ Cardinality(Dead(Cur)) < MaxBroken
  /\ Step([Event(Cur) EXCEPT !.connState[ws] = "broken"])

Close(ws) ==
  /\ ws \in 1..nextWs
  /\ connState[ws] # "closed"
  /\ Step(CloseOrErrorHandler(Event(Cur), ws))

\* checkLimit() returned false: the sender alone is told.
RateLimited(ws) ==
  /\ CanReceive(ws)
  /\ Step(SendError(Event(Cur), ws, "rate limited"))

\* safeJsonParse(msg) returned a falsy value.
InvalidMessage(ws) ==
  /\ CanReceive(ws)
  /\ Step(SendError(Event(Cur), ws, "invalid format"))

UserSetup(ws, data) ==
  /\ CanReceive(ws)
  /\ sessions[ws].name = None
  /\ Step(HandleUserSetup(Event(Cur), ws, data))

TurtleSoupRequest(ws, data) ==
  Registered(ws) /\ Step(HandleTurtleSoupRequest(Event(Cur), ws, data))

TurtleSoupConfirm(ws, data) ==
  Registered(ws) /\ Step(HandleTurtleSoupConfirmation(Event(Cur), ws, data))

TurtleSoupTurnChange(ws, data) ==
  Registered(ws) /\ Step(HandleTurtleSoupTurnChange(Event(Cur), ws, data))

TurtleSoupEnd(ws) ==
  Registered(ws) /\ Step(HandleTurtleSoupEnd(Event(Cur), ws))

TurtleSoupPuzzleSelected(ws, data) ==
  Registered(ws) /\ Step(HandleTurtleSoupPuzzleSelected(Event(Cur), ws, data))

AIHostRequest(ws, data) ==
  Registered(ws) /\ Step(HandleAIHostRequest(Event(Cur), ws, data))

AIHostEnd(ws) ==
  Registered(ws) /\ Step(HandleAIHostEnd(Event(Cur), ws))

ChatMessage(ws, data, now) ==
  Registered(ws) /\ Step(HandleChatMessage(Event(Cur), ws, data, now))

ConfirmTimerFires(i) ==
  /\ CanFire(i)
  /\ timers[i].kind = "confirm"
  /\ Step(ConfirmTimeout(Disarm(Event(Cur), i), timers[i]))

AIResponseTimerFires(i, now) ==
  /\ CanFire(i)
  /\ timers[i].kind = "aiResponse"
  /\ Step(AIResponseTimeout(Disarm(Event(Cur), i), timers[i], now))

TurnChangeTimerFires(i) ==
  /\ CanFire(i)
  /\ timers[i].kind = "turnChange"
  /\ Step(TurnChangeTimeout(Disarm(Event(Cur), i)))

AITurnChangeTimerFires(i) ==
  /\ CanFire(i)
  /\ timers[i].kind = "aiTurnChange"
  /\ Step(AITurnChangeTimeout(Disarm(Event(Cur), i)))

NarrationReplies(i, outcome) ==
  /\ i \in DOMAIN aiCalls
  /\ Step(AIReply([Event(Cur) EXCEPT !.aiCalls =
                      SubSeq(aiCalls, 1, i - 1) \o SubSeq(aiCalls, i + 1, Len(aiCalls))],
                  aiCalls[i], outcome))

\* The runtime evicts the object, or wakes it from hibernation: the
\* constructor runs again before the next event.
Hibernate ==
  /\ nextWs > 0
  /\ Step(Restart(Cur))

Conns == 1..MaxConn
\* The identity each websocket claims: the second may repeat the first's.
ClaimedNames(ws) ==
  IF ws = 1 THEN {"A"} ELSE IF ws = 2 THEN {"A", "B"} ELSE {"C"}

SetupData(ws) == [name : ClaimedNames(ws), requestGameState : BOOLEAN]

\* ... and with identities pairwise distinct.
DistinctNames(ws) == IF ws = 1 THEN {"A"} ELSE IF ws = 2 THEN {"B"} ELSE {"C"}

DistinctSetupData(ws) == [name : DistinctNames(ws), requestGameState : BOOLEAN]

\* Messages whose initiator and user fields are the sender's own identity.
OwnRequestData(ws) == [initiator : {sessions[ws].name}, participants : ClientLists]

OwnConfirmData(ws) ==
  [initiator : Names, user : {sessions[ws].name}, confirmed : BOOLEAN]
RequestData == [initiator : Names, participants : ClientLists]
ConfirmData == [initiator : Names, user : Names, confirmed : BOOLEAN]
TurnChangeData == [turnIndex : (0..MaxTurnInput) \cup {NaN}, nextPlayer : {None}]
PuzzleData == [initiator : Names, puzzleId : Puzzles \cup {"bad"}]
AIRequestData == [puzzleId : Puzzles \cup {"bad"}]
ChatData ==
  { d \in [message : Texts, turtleSoupMessage : BOOLEAN, aiHostQuestion : BOOLEAN] :
      d.aiHostQuestion => d.turtleSoupMessage }

\* Messages without the turn flag, and messages with it.
PlainChat == { d \in ChatData : ~d.turtleSoupMessage }

\* Turn texts put to the overlay.
OverlayTurnTexts == { d \in ChatData : d.turtleSoupMessage /\ d.aiHostQuestion }

\* Every accepted connection has registered its identity.
Settled == \A w \in DOMAIN sessions : sessions[w].name # None

\* ------------------------------------------------------- the rate limiter
\* RateLimiter.fetch on a POST: the new nextAllowedTime ...
\* (Were the unit added only to a time not in the future, actions would not
\* add up.)
NextAllowedMutNoAccumulate(nextAllowed, now) ==
  IF nextAllowed > now THEN nextAllowed ELSE now + LimiterUnit

NextAllowed(nextAllowed, now) == Max(now, nextAllowed) + LimiterUnit

\* ... and the cooldown it replies, in seconds.
\* (Without the grace period every action after the first would wait.)
CooldownMutNoGrace(nextAllowed, now) == Max(0, nextAllowed - now)

\* (With the difference taken the other way round it would reply the grace
\* that is left.)
CooldownMutSignFlipped(nextAllowed, now) == Max(0, GracePeriod - (nextAllowed - now))

Cooldown(nextAllowed, now) == Max(0, nextAllowed - now - GracePeriod)

\* What RateLimiter.fetch leaves behind for a POST handled at now.
Serve(key, now) ==
  LET after == NextAllowed(nextAllowedTime[key], now)
  IN /\ served[key].count < MaxConsumes
     /\ nextAllowedTime' = [nextAllowedTime EXCEPT ![key] = after]
     /\ served' = [served EXCEPT ![key] =
                      [ count |-> @.count + 1,
                        first |-> IF @.count = 0 THEN now ELSE @.first,
                        now |-> now,
                        before |-> nextAllowedTime[key],
                        nextAllowedTime |-> after,
                        cooldown |-> Cooldown(after, now) ]]

\* checkLimit() of proxy p: what it returns ...
CheckLimitReturns(p) == ~inCooldown[p]

\* ... and, when that is true, the call it starts.
CheckLimit(p) ==
  /\ CheckLimitReturns(p)
  /\ inCooldown' = [inCooldown EXCEPT ![p] = TRUE]
  /\ callLimiter' = [callLimiter EXCEPT ![p].at = "fetch"]
  /\ UNCHANGED <<roomVars, clock, nextAllowedTime, served>>

\* The limiter handles the POST of p and p reads the reply: callLimiter()
\* sleeps for cooldown * 1000 ms.
LimiterFetch(p) ==
  /\ callLimiter[p].at \in {"fetch", "retry"}
  /\ Serve(KeyOf(p), clock)
  /\ callLimiter' = [callLimiter EXCEPT ![p] =
                       [@ EXCEPT !.at = "sleep",
                                 !.wake = clock + served'[KeyOf(p)].cooldown]]
  /\ UNCHANGED <<roomVars, clock, inCooldown>>

\* The stub is disconnected and fetch() throws, the POST handled or not: the
\* first time callLimiter() posts again on a new stub, the second time it
\* calls reportError and inCooldown stays set.
\* (Without the inner catch the first throw would be reported at once.)
FetchThrowsMutNoRetry(p, handled) ==
  /\ callLimiter[p].at \in {"fetch", "retry"}
  /\ IF handled THEN Serve(KeyOf(p), clock)
     ELSE UNCHANGED <<nextAllowedTime, served>>
  /\ callLimiter' = [callLimiter EXCEPT ![p] =
                       [@ EXCEPT !.at = "failed", !.reports = @ + 1]]
  /\ UNCHANGED <<roomVars, clock, inCooldown>>

FetchThrows(p, handled) ==
  /\ callLimiter[p].at \in {"fetch", "retry"}
  /\ IF handled THEN Serve(KeyOf(p), clock)
     ELSE UNCHANGED <<nextAllowedTime, served>>
  /\ callLimiter' = [callLimiter EXCEPT ![p] =
                       IF @.at = "fetch" THEN [@ EXCEPT !.at = "retry"]
                       ELSE [@ EXCEPT !.at = "failed", !.reports = @ + 1]]
  /\ UNCHANGED <<roomVars, clock, inCooldown>>

\* The sleep of callLimiter() is over: "Done waiting."
\* (A timer set to 0 whatever the reply would fire at once.)
DoneWaitingMutAtOnce(p) ==
  /\ callLimiter[p].at = "sleep"
  /\ inCooldown' = [inCooldown EXCEPT ![p] = FALSE]
  /\ callLimiter' = [callLimiter EXCEPT ![p].at = "idle"]
  /\ UNCHANGED <<roomVars, clock, nextAllowedTime, served>>

DoneWaiting(p) ==
  /\ callLimiter[p].at = "sleep"
  /\ clock >= callLimiter[p].wake
  /\ inCooldown' = [inCooldown EXCEPT ![p] = FALSE]
  /\ callLimiter' = [callLimiter EXCEPT ![p].at = "idle"]
  /\ UNCHANGED <<roomVars, clock, nextAllowedTime, served>>

\* The runtime evicts an idle RateLimiter object; nextAllowedTime lives in
\* memory only, so the next call finds a fresh object.
LimiterEvicted(key) ==
  /\ served[key].count > 0
  /\ \A p \in Proxies : KeyOf(p) = key => callLimiter[p].at \notin {"fetch", "retry"}
  /\ nextAllowedTime' = [nextAllowedTime EXCEPT ![key] = 0]
  /\ served' = [served EXCEPT ![key] =
                   [ count |-> 0, first |-> 0, now |-> 0, before |-> 0,
                     nextAllowedTime |-> 0, cooldown |-> 0 ]]
  /\ UNCHANGED <<roomVars, clock, inCooldown, callLimiter>>

\* A second passes.
Tick ==
  /\ clock < MaxTime
  /\ clock' = clock + 1
  /\ UNCHANGED <<roomVars, nextAllowedTime, served, inCooldown, callLimiter>>

\* Proxies of one address call their limiter as messages arrive, replies and
\* disconnects come in any order, and time passes.
NextLimiter ==
  \/ \E p \in Proxies : CheckLimit(p)
  \/ \E p \in Proxies : LimiterFetch(p)
  \/ \E p \in Proxies, handled \in BOOLEAN : FetchThrows(p, handled)
  \/ \E p \in Proxies : DoneWaiting(p)
  \/ \E key \in LimiterKeys : LimiterEvicted(key)
  \/ Tick

SpecLimiter == Init /\ [][NextLimiter]_vars

\* ---------------------------------------------- the rate limiter, fairly
\* A message arrives at p while its limiter can still serve the call.
Pending(key) ==
  { q \in Proxies : KeyOf(q) = key /\ callLimiter[q].at \in {"fetch", "retry"} }

Arrives(p) ==
  /\ clock <= MaxTime
  /\ served[KeyOf(p)].count + 2 * (Cardinality(Pending(KeyOf(p))) + 1) <= MaxConsumes
  /\ CheckLimit(p)

\* A second passes, also past MaxTime while a proxy sleeps.
Elapse ==
  /\ \/ clock < MaxTime
     \/ \E p \in Proxies : callLimiter[p].at = "sleep" /\ clock < callLimiter[p].wake
  /\ clock' = clock + 1
  /\ UNCHANGED <<roomVars, nextAllowedTime, served, inCooldown, callLimiter>>

\* The await of fetch() ends: the reply is read, or the call throws.
FetchSettles(p) ==
  \/ LimiterFetch(p)
  \/ \E handled \in BOOLEAN : FetchThrows(p, handled)

NextLimiterLive ==
  \/ \E p \in Proxies : Arrives(p)
  \/ \E p \in Proxies : FetchSettles(p)
  \/ \E p \in Proxies : DoneWaiting(p)
  \/ \E key \in LimiterKeys : LimiterEvicted(key)
  \/ Elapse

\* Every call on a stub returns or throws (a healthy stub delivers, a broken
\* one signals the break), time passes, and a timer that is due fires.
SpecLimiterLive ==
  /\ Init /\ [][NextLimiterLive]_vars
  /\ WF_vars(Elapse)
  /\ \A p \in Proxies : WF_vars(FetchSettles(p)) /\ WF_vars(DoneWaiting(p))

\* ------------------------------------------------------------ the room
\* Connections come, register (two may claim one identity), chat, break and
\* leave while one game request is made and expires.
NextRoom ==
  \/ Connect
  \/ \E ws \in Conns : Break(ws)
  \/ \E ws \in Conns : Close(ws)
  \/ \E ws \in Conns : RateLimited(ws)
  \/ \E ws \in Conns : InvalidMessage(ws)
  \/ \E ws \in Conns : \E data \in SetupData(ws) : UserSetup(ws, data)
  \/ \E ws \in Conns, data \in PlainChat, now \in Clock : ChatMessage(ws, data, now)
  \/ /\ ticketSeq = 0
     /\ \E ws \in Conns : Registered(ws) /\ \E data \in OwnRequestData(ws) :
          TurtleSoupRequest(ws, data)
  \/ \E i \in 1..MaxTimers : ConfirmTimerFires(i)

SpecRoom == Init /\ [][NextRoom]_vars

\* ------------------------------------------------------------ the handshake
\* Clients register at once after connecting, then send any request and any
\* answer, with any initiator and user fields; sessions join and leave
\* while tickets are open, and the expiry timers fire.
NextHandshake ==
  \/ Connect
  \/ \E ws \in Conns : Close(ws)
  \/ \E ws \in Conns : \E data \in DistinctSetupData(ws) : UserSetup(ws, data)
  \/ Settled /\ \E ws \in Conns, data \in RequestData : TurtleSoupRequest(ws, data)
  \/ Settled /\ \E ws \in Conns, data \in ConfirmData : TurtleSoupConfirm(ws, data)
  \/ Settled /\ \E i \in 1..MaxTimers : ConfirmTimerFires(i)

SpecHandshake == Init /\ [][NextHandshake]_vars

\* ------------------------------------------------------------ the turns
\* One game is requested and confirmed by clients that name themselves; then
\* anyone sends turn texts, chat and turn-change messages, the staged timers
\* fire, and the initiator may end the game.
NextTurns ==
  \/ Connect
  \/ \E ws \in Conns : \E data \in DistinctSetupData(ws) : UserSetup(ws, data)
  \/ /\ Settled /\ ticketSeq = 0
     /\ \E ws \in Conns : Registered(ws) /\ \E data \in OwnRequestData(ws) :
          TurtleSoupRequest(ws, data)
  \/ /\ Settled
     /\ \E ws \in Conns : Registered(ws) /\ \E data \in OwnConfirmData(ws) :
          TurtleSoupConfirm(ws, data)
  \/ Settled /\ \E i \in 1..MaxTimers : ConfirmTimerFires(i)
  \/ Settled /\ \E ws \in Conns, data \in TurnChangeData : TurtleSoupTurnChange(ws, data)
  \/ Settled /\ \E ws \in Conns, data \in ChatData, now \in Clock : ChatMessage(ws, data, now)
  \/ Settled /\ \E i \in 1..MaxTimers, now \in Clock : AIResponseTimerFires(i, now)
  \/ Settled /\ \E i \in 1..MaxTimers : TurnChangeTimerFires(i)
  \/ Settled /\ \E ws \in Conns : TurtleSoupEnd(ws)

SpecTurns == Init /\ [][NextTurns]_vars

\* ------------------------------------------------------------ the overlay
\* Two clients register and start a game, the initiator selects a puzzle, and
\* turns are put to the narration collaborator or, without the overlay,
\* scored by the room; replies and staged timers arrive in any order, and the
\* initiator may end the game.
OwnPuzzleData(ws) == [initiator : {sessions[ws].name}, puzzleId : Puzzles]

NextOverlay ==
  \/ nextWs < 2 /\ Connect
  \/ \E ws \in Conns : \E data \in DistinctSetupData(ws) : UserSetup(ws, data)
  \/ /\ Settled /\ ticketSeq = 0
     /\ \E ws \in Conns : Registered(ws) /\ \E data \in OwnRequestData(ws) :
          TurtleSoupRequest(ws, data)
  \/ /\ Settled
     /\ \E ws \in Conns : Registered(ws) /\ \E data \in OwnConfirmData(ws) :
          TurtleSoupConfirm(ws, data)
  \/ Settled /\ \E i \in 1..MaxTimers : ConfirmTimerFires(i)
  \/ /\ Settled
     /\ \E ws \in Conns : Registered(ws) /\ \E data \in OwnPuzzleData(ws) :
          TurtleSoupPuzzleSelected(ws, data)
  \/ Settled /\ \E ws \in Conns, data \in ChatData, now \in Clock : ChatMessage(ws, data, now)
  \/ Settled /\ \E i \in 1..MaxInflight, outcome \in AIOutcomes : NarrationReplies(i, outcome)
  \/ Settled /\ \E i \in 1..MaxTimers : AITurnChangeTimerFires(i)
  \/ Settled /\ \E i \in 1..MaxTimers, now \in Clock : AIResponseTimerFires(i, now)
  \/ Settled /\ \E i \in 1..MaxTimers : TurnChangeTimerFires(i)
  \/ Settled /\ \E ws \in Conns : TurtleSoupEnd(ws)

SpecOverlay == Init /\ [][NextOverlay]_vars

\* ------------------------------------------------------------ restarts
\* Clients register, start a game and take turns scored by the room; at any
\* moment the object is evicted and constructed again, after which the
\* resumed connections go on sending and new ones arrive.
TurnTexts == { d \in ChatData : d.turtleSoupMessage /\ ~d.aiHostQuestion }

NextRestart ==
  \/ Connect
  \/ \E ws \in Conns : Close(ws)
  \/ \E ws \in Conns : \E data \in DistinctSetupData(ws) : UserSetup(ws, data)
  \/ /\ Settled /\ ticketSeq = 0
     /\ \E ws \in Conns : Registered(ws) /\ \E data \in OwnRequestData(ws) :
          TurtleSoupRequest(ws, data)
  \/ /\ Settled
     /\ \E ws \in Conns : Registered(ws) /\ \E data \in OwnConfirmData(ws) :
          TurtleSoupConfirm(ws, data)
  \/ Settled /\ \E i \in 1..MaxTimers : ConfirmTimerFires(i)
  \/ Settled /\ \E ws \in Conns, data \in TurnTexts, now \in Clock : ChatMessage(ws, data, now)
  \/ Settled /\ \E i \in 1..MaxTimers, now \in Clock : AIResponseTimerFires(i, now)
  \/ Settled /\ \E i \in 1..MaxTimers : TurnChangeTimerFires(i)
  \/ Settled /\ \E ws \in Conns : TurtleSoupEnd(ws)
  \/ Hibernate

SpecRestart == Init /\ [][NextRestart]_vars

\* ------------------------------------------------------------ the gate
\* handleSpecialMessages(session, data): the handler of the first type flag
\* the message carries, if any.
HandleSpecialMessages(s, ws, msg) ==
  CASE msg.type = "turtleSoupRequest" -> HandleTurtleSoupRequest(s, ws, msg.data)
    [] msg.type = "turtleSoupConfirm" -> HandleTurtleSoupConfirmation(s, ws, msg.data)
    [] msg.type = "turtleSoupTurnChange" -> HandleTurtleSoupTurnChange(s, ws, msg.data)
    [] msg.type = "turtleSoupEnd" -> HandleTurtleSoupEnd(s, ws)
    [] msg.type = "turtleSoupPuzzleSelected" ->
         HandleTurtleSoupPuzzleSelected(s, ws, msg.data)
    [] msg.type = "aiHostRequest" -> HandleAIHostRequest(s, ws, msg.data)
    [] msg.type = "aiHostEnd" -> HandleAIHostEnd(s, ws)
    [] OTHER -> s

SpecialTypes ==
  { "turtleSoupRequest", "turtleSoupConfirm", "turtleSoupTurnChange",
    "turtleSoupEnd", "turtleSoupPuzzleSelected", "aiHostRequest", "aiHostEnd" }

\* webSocketMessage(webSocket, msg) from safeJsonParse on: a text that does
\* not parse, the identity claim of a session without a name, a special
\* message, or chat.
Dispatch(s, ws, msg, now) ==
  IF msg.type = "invalid" THEN SendError(s, ws, "invalid format")
  ELSE IF s.sessions[ws].name = None THEN HandleUserSetup(s, ws, msg.data)
  ELSE IF msg.type \in SpecialTypes THEN HandleSpecialMessages(s, ws, msg)
  ELSE HandleChatMessage(s, ws, msg.data, now)

\* webSocketMessage(webSocket, msg) of a live session whose proxy is ws:
\* the room it leaves, the inCooldown flags, and whether checkLimit() started
\* a call of the limiter.
\* (Were the text parsed before the limit is checked, a text that does not
\* parse would be answered without passing the limiter.)
WebSocketMessageMutParseFirst(s, cooling, ws, msg, now) ==
  IF msg.type = "invalid"
  THEN [ room |-> SendError(s, ws, "invalid format"),
         inCooldown |-> cooling, called |-> FALSE ]
  ELSE IF cooling[ws]
  THEN [ room |-> SendError(s, ws, "rate limited"),
         inCooldown |-> cooling, called |-> FALSE ]
  ELSE [ room |-> Dispatch(s, ws, msg, now),
         inCooldown |-> [cooling EXCEPT ![ws] = TRUE], called |-> TRUE ]

WebSocketMessage(s, cooling, ws, msg, now) ==
  IF cooling[ws]
  THEN [ room |-> SendError(s, ws, "rate limited"),
         inCooldown |-> cooling, called |-> FALSE ]
  ELSE [ room |-> Dispatch(s, ws, msg, now),
         inCooldown |-> [cooling EXCEPT ![ws] = TRUE], called |-> TRUE ]

\* One inbound message on websocket ws, whose session holds proxy ws.
Message(ws, msg, now) ==
  /\ CanReceive(ws)
  /\ LET r == WebSocketMessage(Event(Cur), inCooldown, ws, msg, now)
     IN /\ WithinBounds(r.room)
        /\ Becomes(r.room)
        /\ inCooldown' = r.inCooldown
        /\ callLimiter' = IF r.called THEN [callLimiter EXCEPT ![ws].at = "fetch"]
                          ELSE callLimiter
        /\ UNCHANGED <<clock, nextAllowedTime, served>>

\* The texts a client sends on ws: its identity claim first, then chat and a
\* game request in its own name; at any time a text that does not parse.
Inbound(ws) ==
  {[type |-> "invalid", data |-> << >>]} \cup
  IF sessions[ws].name = None
  THEN { [type |-> "setup", data |-> d] : d \in DistinctSetupData(ws) }
  ELSE { [type |-> "chat", data |-> d] : d \in PlainChat } \cup
       { [type |-> "turtleSoupRequest", data |-> d] : d \in OwnRequestData(ws) }

\* Two clients of one address send while their proxies' calls of the limiter
\* are served and the waits replied run out.
NextGate ==
  \/ nextWs < MaxProxies /\ Connect
  \/ \E ws \in Proxies : CanReceive(ws) /\ \E msg \in Inbound(ws), now \in Clock :
       Message(ws, msg, now)
  \/ \E i \in 1..MaxTimers : ConfirmTimerFires(i)
  \/ \E p \in Proxies : served[KeyOf(p)].count < MaxGated /\ LimiterFetch(p)
  \/ \E p \in Proxies : DoneWaiting(p)

SpecGate == Init /\ [][NextGate]_vars

\* ------------------------------------------------- the overlay, restarted
\* Clients register, start a game and attach the overlay; the object is
\* evicted with the overlay attached and constructed again; connections
\* arrive and the resumed ones go on putting questions.
NextRevival ==
  \/ Connect
  \/ \E ws \in Conns : \E data \in DistinctSetupData(ws) : UserSetup(ws, data)
  \/ /\ Settled /\ ticketSeq = 0
     /\ \E ws \in Conns : Registered(ws) /\ \E data \in OwnRequestData(ws) :
          TurtleSoupRequest(ws, data)
  \/ /\ Settled
     /\ \E ws \in Conns : Registered(ws) /\ \E data \in OwnConfirmData(ws) :
          TurtleSoupConfirm(ws, data)
  \/ Settled /\ \E i \in 1..MaxTimers : ConfirmTimerFires(i)
  \/ /\ Settled
     /\ \E ws \in Conns : Registered(ws) /\ \E data \in OwnPuzzleData(ws) :
          TurtleSoupPuzzleSelected(ws, data)
  \/ Settled /\ \E ws \in Conns, data \in ChatData, now \in Clock : ChatMessage(ws, data, now)
  \/ Settled /\ \E i \in 1..MaxInflight, outcome \in AIOutcomes : NarrationReplies(i, outcome)
  \/ Settled /\ \E i \in 1..MaxTimers : AITurnChangeTimerFires(i)
  \/ Settled /\ \E i \in 1..MaxTimers, now \in Clock : AIResponseTimerFires(i, now)
  \/ Settled /\ \E i \in 1..MaxTimers : TurnChangeTimerFires(i)
  \/ aiHostActive /\ Hibernate

SpecRevival == Init /\ [][NextRevival]_vars

\* ------------------------------------------------------------ the narrator
\* The narration collaborator by itself: a game is started, questions are
\* processed one after the other with any reply of the language model, and
\* the game is cleaned up.
ModelReplies ==
  [ success : {TRUE}, llm : {"replied"}, answer : {"yes", "unrelated"},
    score : {5, 7}, progress : 0..100 ]

Questions == [len : {8}, kw : {"why", "yesno", "clue", "yesno clue"}]

\* AIHost.startGame(puzzle)
StartGame ==
  /\ aiHost # "active"
  /\ Becomes([Cur EXCEPT !.aiHost = "active", !.currentSession = CreateGameSession])
  /\ UNCHANGED limiterVars

\* AIHost.processQuestion(question, userId), the call of the model included
ProcessQuestion(question, outcome) ==
  /\ aiHost = "active"
  /\ currentSession.questionCount < MaxAsked
  /\ Becomes([Cur EXCEPT !.currentSession =
                 UpdateGameState(currentSession,
                                 ProcessAIResponse(currentSession, outcome, question))])
  /\ UNCHANGED limiterVars

\* AIHost.cleanup()
CleanupGame ==
  /\ aiHost = "active"
  /\ Becomes([Cur EXCEPT !.aiHost = Cleanup(aiHost), !.currentSession = NoSession])
  /\ UNCHANGED limiterVars

NextNarrator ==
  \/ StartGame
  \/ \E question \in Questions, outcome \in ModelReplies \cup {FailedCall} :
       ProcessQuestion(question, outcome)
  \/ CleanupGame

SpecNarrator == Init /\ [][NextNarrator]_vars

\* ------------------------------------------------------------ a long game
\* Two clients register and start a game, the initiator selects a puzzle, and
\* the participants put their turns to the narration collaborator, one at a
\* time, for as many questions as a solution takes.
LongGame(s) ==
  /\ s.ticketSeq <= MaxTickets
  /\ s.lastTimestamp <= MaxAsked
  /\ Len(s.timers) <= MaxTimers
  /\ Len(s.aiCalls) <= MaxInflight
  /\ \A w \in DOMAIN s.sessions : Len(s.sessions[w].blockedMessages) <= MaxQueue

LongStep(s) == LongGame(s) /\ Becomes(s) /\ UNCHANGED limiterVars

TurnAsked(ws, data, now) ==
  /\ Registered(ws)
  /\ turtleSoupActive /\ aiHostActive
  /\ LongStep(HandleChatMessage(Event(Cur), ws, data, now))

TurnAnswered(i, outcome) ==
  /\ i \in DOMAIN aiCalls
  /\ LongStep(AIReply([Event(Cur) EXCEPT !.aiCalls =
                          SubSeq(aiCalls, 1, i - 1) \o SubSeq(aiCalls, i + 1, Len(aiCalls))],
                      aiCalls[i], outcome))

TurnAnnounced(i) ==
  /\ CanFire(i)
  /\ timers[i].kind = "aiTurnChange"
  /\ LongStep(AITurnChangeTimeout(Disarm(Event(Cur), i)))

TicketExpires(i) ==
  /\ CanFire(i)
  /\ timers[i].kind = "confirm"
  /\ LongStep(ConfirmTimeout(Disarm(Event(Cur), i), timers[i]))

NextLongGame ==
  \/ nextWs < 2 /\ Connect
  \/ \E ws \in Conns : \E data \in DistinctSetupData(ws) : UserSetup(ws, data)
  \/ /\ Settled /\ ticketSeq = 0
     /\ \E ws \in Conns : Registered(ws) /\ \E data \in OwnRequestData(ws) :
          TurtleSoupRequest(ws, data)
  \/ /\ Settled
     /\ \E ws \in Conns : Registered(ws) /\ \E data \in OwnConfirmData(ws) :
          TurtleSoupConfirm(ws, data)
  \/ Settled /\ \E i \in 1..MaxTimers : TicketExpires(i)
  \/ /\ Settled
     /\ \E ws \in Conns : Registered(ws) /\ \E data \in OwnPuzzleData(ws) :
          TurtleSoupPuzzleSelected(ws, data)
  \/ Settled /\ \E ws \in Conns, data \in OverlayTurnTexts, now \in Clock : TurnAsked(ws, data, now)
  \/ Settled /\ \E i \in 1..MaxInflight, outcome \in AIOutcomes : TurnAnswered(i, outcome)
  \/ Settled /\ \E i \in 1..MaxTimers : TurnAnnounced(i)

SpecLongGame == Init /\ [][NextLongGame]_vars

\* ------------------------------------------------------------ C1
\* What broadcast() carries: everything but the notices a handler sends to one
\* connection alone.
BroadcastContent(m) ==
  IF m.type = "error" THEN m.message \in BroadcastErrors
  ELSE m.type \notin {"ready", "gameStateSync"}

\* Broadcast content reaches registered sessions only.
SentToRegisteredOnly ==
  \A i \in DOMAIN outbox :
    BroadcastContent(outbox[i].msg) =>
      /\ outbox[i].to \in DOMAIN sessions
      /\ sessions[outbox[i].to].name # None

\* A session that stays unregistered keeps its queue and gains, behind it,
\* whatever the event broadcast to the sessions registered before it.
QueuedForUnregistered ==
  \A w \in DOMAIN sessions \cap DOMAIN sessions' :
    (sessions[w].name = None /\ sessions'[w].name = None) =>
      LET old == sessions[w].blockedMessages
          new == sessions'[w].blockedMessages
      IN /\ Len(new) >= Len(old)
         /\ SubSeq(new, 1, Len(old)) = old
         /\ \A i \in DOMAIN outbox' :
              ( /\ BroadcastContent(outbox'[i].msg)
                /\ outbox'[i].to \in DOMAIN sessions
                /\ sessions[outbox'[i].to].name # None )
              => \E j \in (Len(old) + 1)..Len(new) : new[j] = outbox'[i].msg

\* C1: over every sequence of connects, identity claims, broadcasts and
\* leaves, no broadcast content (chat, join and quit announcements, game
\* notices, backlog records) is sent on a connection before that connection
\* has registered its identity; until then the content is only appended to
\* the session's pre-handshake queue.
C1_NoBroadcastBeforeIdentity ==
  [][SentToRegisteredOnly' /\ QueuedForUnregistered]_vars

\* A chat message has been sent to a registered session while a connection
\* that has not registered holds it in its queue and was sent nothing.
C1_Witness ==
  \E w \in DOMAIN sessions : \E i \in DOMAIN outbox :
    /\ sessions[w].name = None
    /\ outbox[i].msg.type = "chat"
    /\ outbox[i].msg \in Range(sessions[w].blockedMessages)
    /\ \A j \in DOMAIN outbox : outbox[j].to # w

\* ------------------------------------------------------------ C2
\* The sends of an event that carry a message of the given type.
Sent(s, type) == { i \in DOMAIN s.outbox : s.outbox[i].msg.type = type }

\* The members of the ticket's list, the initiator apart, counted as accepted
\* once the answer of data.user is in.
AcceptedParticipants(ticket, data) ==
  (ticket.confirmedUsers \cup {data.user})
    \cap (Range(ticket.originalParticipants) \ {data.initiator})

\* C2: for every ticket the transition to Active happens at most once (the
\* ticket is gone when it has happened), and only when the number of accepted
\* participants equals the size of the ticket's frozen list minus one, the
\* initiator.
C2_StartOnlyAtQuorum ==
  \A ws \in Conns, data \in ConfirmData :
    (Registered(ws) /\ data.initiator \in DOMAIN pendingConfirmations) =>
      LET ticket == pendingConfirmations[data.initiator]
          r == HandleTurtleSoupConfirmation(Event(Cur), ws, data)
      IN Sent(r, "turtleSoupStart") # {} =>
           /\ data.initiator \notin DOMAIN r.pendingConfirmations
           /\ Cardinality(AcceptedParticipants(ticket, data))
                = Len(ticket.originalParticipants) - 1

\* ------------------------------------------------------------ C3
\* The game state proper, as saveGameState() and the handlers see it.
GameState(s) ==
  << s.turtleSoupActive, s.turtleSoupParticipants, s.turtleSoupInitiator,
     s.currentTurnIndex, s.userScores, s.snapshot >>

Decline(data) ==
  [ type |-> "turtleSoupConfirm", initiator |-> data.initiator,
    confirmed |-> FALSE, user |-> data.user ]

\* C3: while a ticket is pending, a decline discards the ticket at once and
\* broadcasts the cancellation to every registered session, however many had
\* accepted; the other tickets and the game state stay as they were (an Idle
\* room stays Idle), and no accept for that ticket starts a game afterwards.
C3_DeclineDiscards ==
  \A ws \in Conns, data \in ConfirmData :
    (Registered(ws) /\ ~data.confirmed
       /\ data.initiator \in DOMAIN pendingConfirmations) =>
      LET r == HandleTurtleSoupConfirmation(Event(Cur), ws, data)
      IN /\ data.initiator \notin DOMAIN r.pendingConfirmations
         /\ \A k \in DOMAIN pendingConfirmations \ {data.initiator} :
              /\ k \in DOMAIN r.pendingConfirmations
              /\ r.pendingConfirmations[k] = pendingConfirmations[k]
         /\ \A w \in Named(Cur) :
              \E i \in DOMAIN r.outbox : r.outbox[i] = [to |-> w, msg |-> Decline(data)]
         /\ GameState(r) = GameState(Cur)
         /\ Sent(r, "turtleSoupStart") = {}
         /\ \A ws2 \in Named(r), user \in Names :
              HandleTurtleSoupConfirmation(
                  Event(r), ws2,
                  [initiator |-> data.initiator, user |-> user, confirmed |-> TRUE])
                = Event(r)

\* In an Idle room of three a ticket has one accept, and the third
\* participant's decline discards it and reaches all three sessions.
C3_Witness ==
  \E k \in DOMAIN pendingConfirmations : \E ws \in Named(Cur) :
    LET ticket == pendingConfirmations[k]
        data == [initiator |-> k, user |-> sessions[ws].name, confirmed |-> FALSE]
        r == HandleTurtleSoupConfirmation(Event(Cur), ws, data)
    IN /\ ~turtleSoupActive
       /\ Len(ticket.originalParticipants) = 3
       /\ Cardinality(ticket.confirmedUsers) = 1
       /\ sessions[ws].name \in Range(ticket.originalParticipants)
                                  \ (ticket.confirmedUsers \cup {k})
       /\ Cardinality(Named(Cur)) = 3
       /\ k \notin DOMAIN r.pendingConfirmations
       /\ Len(r.outbox) = 3

\* ------------------------------------------------------------ C4
\* C4: the acceptances a ticket requires are fixed when the request is
\* handled: whatever happens while the ticket stays open, sessions joining
\* and leaving included, its participant list and the list of identities
\* whose number is the quorum stay what they were.
C4_QuorumFrozen ==
  [][\A k \in DOMAIN pendingConfirmations \cap DOMAIN pendingConfirmations' :
       pendingConfirmations'[k].id = pendingConfirmations[k].id =>
         /\ pendingConfirmations'[k].originalParticipants
              = pendingConfirmations[k].originalParticipants
         /\ RequiredConfirmations(Cur, pendingConfirmations[k], k)'
              = RequiredConfirmations(Cur, pendingConfirmations[k], k)]_vars

\* A ticket is open whose list names someone who has left and lacks
\* someone who has registered since.
C4_Witness ==
  \E k \in DOMAIN pendingConfirmations :
    LET list == Range(pendingConfirmations[k].originalParticipants)
        online == Range(OnlineUsers(Cur))
    IN list \ online # {} /\ online \ list # {}

\* ------------------------------------------------------------ C5
\* The identities of the registered sessions.
RegisteredNames(s) == { s.sessions[w].name : w \in Named(s) }

\* C5: the list stored in a ticket and broadcast with the request is exactly
\* the set of identities registered when the request is handled; two requests
\* that differ only in the list the client submits leave the room in the same
\* state (ticket, sends, timers and all else), so in the same later states.
C5_ListFromRegistry ==
  \A ws \in Conns, d1 \in RequestData, d2 \in RequestData :
    (Registered(ws) /\ d1.initiator = d2.initiator) =>
      LET r1 == HandleTurtleSoupRequest(Event(Cur), ws, d1)
          r2 == HandleTurtleSoupRequest(Event(Cur), ws, d2)
      IN /\ r1 = r2
         /\ r1.ticketSeq # ticketSeq =>
              LET list == r1.pendingConfirmations[d1.initiator].originalParticipants
              IN /\ Range(list) = RegisteredNames(Cur)
                 /\ Len(list) = Cardinality(RegisteredNames(Cur))
                 /\ Sent(r1, "turtleSoupRequest") # {}
                 /\ \A i \in Sent(r1, "turtleSoupRequest") :
                      r1.outbox[i].msg.participants = list

\* A request has just opened a ticket and been broadcast with a list of two
\* that is none of the lists clients submit.
C5_Witness ==
  \E k \in DOMAIN pendingConfirmations :
    /\ pendingConfirmations[k].confirmedUsers = {}
    /\ Len(pendingConfirmations[k].originalParticipants) = 2
    /\ pendingConfirmations[k].originalParticipants \notin ClientLists
    /\ \E i \in Sent(Cur, "turtleSoupRequest") :
         /\ outbox[i].msg.initiator = k
         /\ outbox[i].msg.participants = pendingConfirmations[k].originalParticipants

\* ------------------------------------------------------------ C6
\* C6: a request naming an initiator whose ticket is open is ignored: the
\* tickets (lists, confirmed sets), the timers and the queues stay as they
\* were and no request is broadcast, so one ticket at most is open per
\* initiator.
C6_DuplicateRequestIgnored ==
  \A ws \in Conns, data \in RequestData :
    (Registered(ws) /\ data.initiator \in DOMAIN pendingConfirmations) =>
      LET r == HandleTurtleSoupRequest(Event(Cur), ws, data)
      IN /\ r.pendingConfirmations = pendingConfirmations
         /\ r.timers = timers
         /\ r.ticketSeq = ticketSeq
         /\ r.sessions = sessions
         /\ Sent(r, "turtleSoupRequest") = {}

\* The first ticket is open with an accept in, its one timer is armed, and the
\* last event sent nothing.
C6_Witness ==
  \E k \in DOMAIN pendingConfirmations :
    /\ ~turtleSoupActive
    /\ pendingConfirmations[k].confirmedUsers # {}
    /\ ticketSeq = 1
    /\ Len(timers) = 1
    /\ outbox = << >>
    /\ \E ws \in Named(Cur) : sessions[ws].name = k

\* ------------------------------------------------------------ C7
\* The ticket a timer was armed for is still open.
TicketOpen(s, t) ==
  /\ t.initiator \in DOMAIN s.pendingConfirmations
  /\ s.pendingConfirmations[t.initiator].id = t.id

\* C7: when a ticket's timer fires and the ticket is neither completed nor
\* declined, the ticket is discarded and the timeout error announced to the
\* room; when it has been completed or declined, the firing discards nothing
\* and announces nothing.
C7_TimerDiscardsItsTicketOnly ==
  \A i \in DOMAIN timers :
    (CanFire(i) /\ timers[i].kind = "confirm") =>
      LET t == timers[i]
          r == ConfirmTimeout(Disarm(Event(Cur), i), t)
      IN IF TicketOpen(Cur, t)
         THEN /\ t.initiator \notin DOMAIN r.pendingConfirmations
              /\ \A w \in Named(Cur) :
                   \E j \in DOMAIN r.outbox :
                     r.outbox[j] = [to |-> w, msg |-> ErrorMsg("request timeout")]
         ELSE /\ r.pendingConfirmations = pendingConfirmations
              /\ r.outbox = << >>

\* ------------------------------------------------------------ C8
\* C8: while a game is Active, a message from a session whose identity is not
\* participants[turnIndex] is dropped: nothing is sent to the room, nothing is
\* persisted, no narration call is made, and the turn index and the scores
\* stay as they were.
C8_OffTurnMessageDropped ==
  \A ws \in Conns, data \in ChatData, now \in Clock :
    ( /\ Registered(ws)
      /\ turtleSoupActive
      /\ ~IsCurrentPlayer(Cur, sessions[ws].name) ) =>
      LET r == HandleChatMessage(Event(Cur), ws, data, now)
      IN /\ r.outbox = << >>
         /\ r.msgLog = msgLog
         /\ r.aiCalls = aiCalls
         /\ r.currentTurnIndex = currentTurnIndex
         /\ r.userScores = userScores

\* ------------------------------------------------------------ C9
\* The step is the accepted turn of the participant the index addresses: that
\* participant's question count goes up by one.
AcceptedTurn ==
  LET player == At(turtleSoupParticipants, currentTurnIndex)
  IN /\ player \in DOMAIN userScores
     /\ player \in DOMAIN userScores'
     /\ userScores'[player].questionCount = userScores[player].questionCount + 1

\* C9: while a game with N participants stays Active, the turn index changes
\* only through an accepted turn, and then from i to (i + 1) mod N, so turns
\* go round the participants in order with none skipped.
C9_TurnOrder ==
  [][( /\ turtleSoupActive /\ turtleSoupActive'
       /\ turtleSoupParticipants' = turtleSoupParticipants
       /\ currentTurnIndex' # currentTurnIndex ) =>
       /\ AcceptedTurn
       /\ currentTurnIndex' =
            (currentTurnIndex + 1) % Len(turtleSoupParticipants)]_vars

\* ------------------------------------------------------------ C10
\* C10: in every state in which a game is Active the turn index is a position
\* of the participant list, whatever messages clients send.
C10_TurnIndexInRange ==
  turtleSoupActive =>
    /\ currentTurnIndex >= 0
    /\ currentTurnIndex < Len(turtleSoupParticipants)

\* ------------------------------------------------------------ C11
\* C11: once a game is Active, no request, answer, join, leave or timer (the
\* completion of another initiator's ticket included) replaces its
\* participant list or its initiator, or resets its turn index or scores;
\* no turn is taken and no game is ended in SpecHandshake, so there an Active
\* game keeps all four.
C11_RunningGameKept ==
  [][(turtleSoupActive /\ turtleSoupActive') =>
       /\ turtleSoupParticipants' = turtleSoupParticipants
       /\ turtleSoupInitiator' = turtleSoupInitiator
       /\ currentTurnIndex' = currentTurnIndex
       /\ userScores' = userScores]_vars
\* ------------------------------------------------------------ C12
\* C12: a game-end request from a session whose identity is the Active game's
\* initiator leaves the game not Active with the participant list, the scores
\* and the turn index cleared, the stored snapshot showing exactly that, and
\* the end announced; from any other session it changes nothing and sends
\* nothing.
C12_EndOnlyByInitiator ==
  \A ws \in Conns :
    Registered(ws) =>
      LET r == HandleTurtleSoupEnd(Event(Cur), ws)
      IN IF turtleSoupActive /\ sessions[ws].name = turtleSoupInitiator
         THEN /\ ~r.turtleSoupActive
              /\ r.turtleSoupParticipants = << >>
              /\ r.userScores = << >>
              /\ r.currentTurnIndex = 0
              /\ r.snapshot # {}
              /\ \A g \in r.snapshot :
                    /\ ~g.turtleSoupActive
                    /\ g.turtleSoupParticipants = << >>
                    /\ g.userScores = {}
                    /\ g.currentTurnIndex = 0
              /\ LET back == RestoreGameState(r)
                 IN /\ ~back.turtleSoupActive
                    /\ back.turtleSoupParticipants = << >>
                    /\ back.userScores = << >>
                    /\ back.currentTurnIndex = 0
              /\ { r.outbox[i].to : i \in Sent(r, "turtleSoupEnd") } = Receivers(Cur)
         ELSE r = Event(Cur)

\* The initiator has just ended a game in which a turn had been scored: the
\* end is in the event's sends, the fields and the stored snapshot are clear,
\* and the turn text of the ended game is still in the message log.
C12_Witness ==
  /\ Sent(Cur, "turtleSoupEnd") # {}
  /\ ~turtleSoupActive
  /\ turtleSoupParticipants = << >>
  /\ userScores = << >>
  /\ snapshot = {Snapshot(Cur)}
  /\ \E k \in DOMAIN msgLog : msgLog[k].turtleSoupMessage
\* ------------------------------------------------------------ C13
\* C13: when the narration reply to an accepted turn reports progress at or
\* past the solved threshold, the room announces the solution, detaches the
\* overlay and leaves Active with participant list, scores and turn index
\* cleared, so that no session holds the turn any more.
C13_SolvedEndsGame ==
  \A i \in DOMAIN aiCalls, outcome \in AIOutcomes :
    ( /\ aiCalls[i].turtle
      /\ turtleSoupActive /\ aiHostActive /\ aiHost = "active"
      /\ outcome.success
      /\ CheckIfSolved(ProcessAIResponse(currentSession, outcome, aiCalls[i].question)) ) =>
      LET r == AIReply(Event(Cur), aiCalls[i], outcome)
      IN /\ Sent(r, "aiGameSolved") # {}
         /\ ~r.aiHostActive
         /\ ~r.turtleSoupActive
         /\ r.turtleSoupParticipants = << >>
         /\ r.userScores = << >>
         /\ r.currentTurnIndex = 0
         /\ \A n \in Names : ~IsCurrentPlayer(r, n)
\* ------------------------------------------------------------ C14
\* The mode of the game: Active, else PendingConfirmation while a ticket is
\* open, else Idle.
Mode(s) ==
  IF s.turtleSoupActive THEN "Active"
  ELSE IF DOMAIN s.pendingConfirmations # {} THEN "PendingConfirmation"
  ELSE "Idle"

RoundTrip(s) == RestoreGameState(SaveGameState(s))

\* C14: for every game state, saving the snapshot and restoring it from
\* storage gives back the same mode, participant list, turn index and scores.
C14_RoundTrip ==
  gameStateInitialized =>
    /\ Mode(RoundTrip(Cur)) = Mode(Cur)
    /\ RoundTrip(Cur).turtleSoupParticipants = turtleSoupParticipants
    /\ RoundTrip(Cur).currentTurnIndex = currentTurnIndex
    /\ RoundTrip(Cur).userScores = userScores

\* What does hold: with no ticket open and a number as turn index, the four
\* come back as they were.
RoundTripOfNumbers ==
  ( /\ gameStateInitialized
    /\ Mode(Cur) # "PendingConfirmation"
    /\ currentTurnIndex # NaN ) =>
    /\ Mode(RoundTrip(Cur)) = Mode(Cur)
    /\ RoundTrip(Cur).turtleSoupParticipants = turtleSoupParticipants
    /\ RoundTrip(Cur).currentTurnIndex = currentTurnIndex
    /\ RoundTrip(Cur).userScores = userScores
\* ------------------------------------------------------------ C15
\* C15: after every (re)activation the stored snapshot is loaded, or the
\* default state set, before any inbound session message is handled: whenever
\* a connection has a session a message can arrive on, the game state has
\* been initialised.
C15_LoadedBeforeMessages ==
  \A ws \in Conns : CanReceive(ws) => gameStateInitialized
\* ------------------------------------------------------------ C16
\* The resync notices an event sent to ws that carry the given game values.
Resyncs(r, ws, s) ==
  { i \in Sent(r, "gameStateSync") :
      /\ r.outbox[i].to = ws
      /\ r.outbox[i].msg.turtleSoupActive = s.turtleSoupActive
      /\ r.outbox[i].msg.currentTurnIndex = s.currentTurnIndex
      /\ r.outbox[i].msg.turtleSoupParticipants = s.turtleSoupParticipants }

\* The next connection accepted after a restart now, and its handshake.
AcceptedAfterRestart == HandleSession(Event(Restart(Cur)))

HandshakeAfterRestart(data) ==
  HandleUserSetup(Event(AcceptedAfterRestart), AcceptedAfterRestart.nextWs, data)

\* C16: if the room restarts while a game is Active, the first session to
\* complete its handshake afterwards is sent a resync notice whose mode, turn
\* index and participant list are those held in memory before the restart;
\* and every session completing its handshake while a game is Pending or
\* Active is sent a game-state notice.
C16_ResyncOnHandshake ==
  /\ (gameStateInitialized /\ turtleSoupActive /\ nextWs < MaxConn) =>
       \A data \in DistinctSetupData(nextWs + 1) :
         Resyncs(HandshakeAfterRestart(data), nextWs + 1, Cur) # {}
  /\ \A ws \in Conns :
       (CanReceive(ws) /\ sessions[ws].name = None /\ Mode(Cur) # "Idle") =>
         \A data \in DistinctSetupData(ws) :
           \E i \in Sent(HandleUserSetup(Event(Cur), ws, data), "gameStateSync") :
             HandleUserSetup(Event(Cur), ws, data).outbox[i].to = ws

\* The same for the clients that ask for the notice with requestGameState.
ResyncWhenAsked ==
  (gameStateInitialized /\ turtleSoupActive /\ nextWs < MaxConn) =>
    \A data \in DistinctSetupData(nextWs + 1) :
      data.requestGameState =>
        Resyncs(HandshakeAfterRestart(data), nextWs + 1, Cur) # {}
\* ------------------------------------------------------------ C17
\* C17: were the room suspended now, every connection the runtime holds would
\* come back with a session, each session of before with the identity and the
\* rate-limiter key it had, and the rebuilt table is a function of the
\* attachments alone.
C17_SessionsRebuilt ==
  LET r == Restart(Cur)
  IN /\ DOMAIN r.sessions = { w \in 1..nextWs : connState[w] # "closed" }
     /\ \A w \in DOMAIN sessions :
          /\ w \in DOMAIN r.sessions
          /\ r.sessions[w].name = sessions[w].name
          /\ r.sessions[w].limiter = sessions[w].limiter
          /\ r.sessions[w].limiter = IdFromName(IpOf(w))
     /\ r.sessions =
          [ w \in DOMAIN attachments |->
              [ name |-> attachments[w].name,
                limiter |-> IdFromString(attachments[w].limiterId),
                blockedMessages |-> << >> ] ]

\* The room has just been resumed with a game stored: a registered session
\* and a session under another rate-limiter key are back in the table.
C17_Witness ==
  /\ ~gameStateInitialized
  /\ snapshot # {}
  /\ \E w, v \in DOMAIN sessions :
       /\ sessions[w].name = "A"
       /\ sessions[v].name = "C"
       /\ sessions[v].limiter # sessions[w].limiter
\* ------------------------------------------------------------ C18
\* C18: the last consume a limiter served at time now raised nextAllowedTime
\* to at least now, added exactly one unit and replied
\* max(0, nextAllowedTime - now - 30); so a key whose consumes, from the
\* first on, were all served at one instant got 0 for each of the first 30
\* and k - 30 for the k-th when k > 30.
C18_ConsumeArithmetic ==
  \A key \in LimiterKeys :
    LET last == served[key]
    IN last.count >= 1 =>
         /\ nextAllowedTime[key] = last.nextAllowedTime
         /\ last.nextAllowedTime = Max(last.now, last.before) + 1
         /\ last.cooldown = Max(0, last.nextAllowedTime - last.now - 30)
         /\ last.first = last.now =>
              /\ last.nextAllowedTime = last.now + last.count
              /\ last.cooldown = IF last.count <= 30 THEN 0 ELSE last.count - 30

\* ... each consume moving nextAllowedTime from max(now, nextAllowedTime) by
\* one unit.
C18_Witness ==
  \E key \in LimiterKeys :
    /\ served[key].count = 32
    /\ served[key].first = served[key].now
    /\ served[key].now = 1
    /\ served[key].cooldown = 2
\* ------------------------------------------------------------ C19
\* C19: for the consume calls of one key, whichever callers issue them, the
\* wait the limiter replies never drops from one call to the next.
C19_WaitsNeverDrop ==
  [][\A key \in LimiterKeys :
       ( /\ served[key].count >= 1
         /\ served'[key].count = served[key].count + 1 ) =>
         served'[key].cooldown >= served[key].cooldown]_vars

\* ... which holds of two calls served no more than one second apart by one
\* limiter object.
C19_WaitsNeverDropWithinAUnit ==
  [][\A key \in LimiterKeys :
       ( /\ served[key].count >= 1
         /\ served'[key].count = served[key].count + 1
         /\ served'[key].now - served[key].now <= 1 ) =>
         served'[key].cooldown >= served[key].cooldown]_vars

\* Two callers of one key have used up the grace within a second: both
\* sleep, the call served a second after the burst told to wait no less than
\* the last call of the burst.
C19_Witness ==
  \E key \in LimiterKeys :
    /\ served[key].count = 33
    /\ served[key].first = 0
    /\ served[key].now = 1
    /\ served[key].cooldown = 2
    /\ \A p \in Proxies : KeyOf(p) = key /\ callLimiter[p].at = "sleep"
\* ------------------------------------------------------------ C20
\* C20: on one proxy, from the checkLimit() that returned true until the
\* consume call it started has replied and the wait replied has elapsed,
\* checkLimit() returns false; so whenever it would return true, no call of
\* the proxy is under way and the last wait it was given is over.
C20_OneAcceptPerCooldown ==
  \A p \in Proxies :
    /\ callLimiter[p].at \in {"fetch", "retry", "failed"} => ~CheckLimitReturns(p)
    /\ (callLimiter[p].at = "sleep" /\ clock < callLimiter[p].wake) => ~CheckLimitReturns(p)
    /\ CheckLimitReturns(p) =>
         /\ callLimiter[p].at = "idle"
         /\ clock >= callLimiter[p].wake

\* A proxy was told to wait after the grace was used up: its call has
\* replied, the wait is not over and checkLimit() returns false.
C20_Witness ==
  \E p \in Proxies :
    /\ callLimiter[p].at = "sleep"
    /\ callLimiter[p].wake > clock
    /\ served[KeyOf(p)].cooldown >= 1
    /\ ~CheckLimitReturns(p)
\* ------------------------------------------------------------ C21
\* The notice a rejected message is answered with, and nothing else.
OnlyRateLimitNotice(s, ws) ==
  s = [Event(Cur) EXCEPT !.outbox = <<[to |-> ws, msg |-> ErrorMsg("rate limited")]>>]

\* C21: every inbound message of a live session, the identity claim and a
\* text that does not parse included, goes through checkLimit() first: when
\* it returns true a call of the limiter is started and the proxy is cooling
\* down; when it returns false the sender is sent the rate-limit notice and
\* nothing else happens: nothing is broadcast or stored, and sessions, game
\* state, timers and proxies are as before.
C21_GateBeforeDispatch ==
  \A ws \in Proxies :
    CanReceive(ws) =>
      \A msg \in Inbound(ws), now \in Clock :
        LET r == WebSocketMessage(Event(Cur), inCooldown, ws, msg, now)
        IN IF CheckLimitReturns(ws)
           THEN r.called /\ r.inCooldown = [inCooldown EXCEPT ![ws] = TRUE]
           ELSE /\ ~r.called
                /\ r.inCooldown = inCooldown
                /\ OnlyRateLimitNotice(r.room, ws)

\* A registered session's message was just rejected while a game request
\* was pending and a chat message stored: the notice is all that was sent.
C21_Witness ==
  \E ws \in Proxies :
    /\ Registered(ws)
    /\ ~CheckLimitReturns(ws)
    /\ outbox = <<[to |-> ws, msg |-> ErrorMsg("rate limited")]>>
    /\ DOMAIN pendingConfirmations # {}
    /\ DOMAIN msgLog # {}
\* ------------------------------------------------------------ C22
\* C22: while the coordinator is not restarted, whatever the clock reads,
\* lastTimestamp never goes back, every chat message stored gets a key later
\* than lastTimestamp was and than every key stored before, and no stored
\* record is replaced or removed.
C22_TimestampsIncrease ==
  [][ /\ lastTimestamp' >= lastTimestamp
      /\ \A k \in DOMAIN msgLog :
           k \in DOMAIN msgLog' /\ msgLog'[k] = msgLog[k]
      /\ \A k \in DOMAIN msgLog' \ DOMAIN msgLog :
           /\ k > lastTimestamp
           /\ k = lastTimestamp'
           /\ msgLog'[k].timestamp = k
           /\ \A j \in DOMAIN msgLog : j < k ]_vars

\* Two chat messages are stored and the later key is past every reading of
\* the clock: it was taken from lastTimestamp + 1, the clock having stood
\* still or gone back.
C22_Witness ==
  /\ Cardinality(DOMAIN msgLog) >= 2
  /\ lastTimestamp > MaxClock
  /\ lastTimestamp \in DOMAIN msgLog
\* ------------------------------------------------------------ C23
\* What a registered client sends: chat, turn texts and questions, and game
\* requests and answers in its own name.
Traffic(ws) ==
  { [type |-> "chat", data |-> d] : d \in ChatData } \cup
  { [type |-> "turtleSoupRequest", data |-> d] : d \in OwnRequestData(ws) } \cup
  { [type |-> "turtleSoupConfirm", data |-> d] : d \in OwnConfirmData(ws) }

\* The message is one whose handler throws before webSocketMessage's catch:
\* the handshake handlers reading pendingConfirmations before the game
\* fields are loaded.
RaisesInHandler(s, ws, msg) ==
  /\ ~s.gameStateInitialized
  /\ \/ msg.type = "turtleSoupConfirm"
     \/ msg.type = "turtleSoupRequest" /\ ~s.turtleSoupActive

\* The message is one that reaches processAIHostQuestion, which throws
\* 'AI Host not initialized' for want of a handle.
RaisesInNarration(s, ws, msg) ==
  /\ msg.type = "chat"
  /\ s.aiHost = "null"
  /\ \/ /\ msg.data.turtleSoupMessage /\ msg.data.aiHostQuestion
        /\ s.turtleSoupActive /\ s.aiHostActive
        /\ IsCurrentPlayer(s, s.sessions[ws].name)
     \/ s.aiHostActive /\ ~msg.data.turtleSoupMessage

\* The sender alone is sent one error notice and nothing else has changed.
OnlySenderTold(r, ws) ==
  /\ Len(r.outbox) = 1
  /\ r.outbox[1].to = ws
  /\ r.outbox[1].msg.type = "error"
  /\ [r EXCEPT !.outbox = << >>] = Event(Cur)

\* An exception raised in a handshake handler ends in the sender's notice.
CaughtAtTop ==
  \A ws \in Conns :
    Registered(ws) =>
      \A msg \in Traffic(ws), now \in Clock :
        RaisesInHandler(Cur, ws, msg) =>
          OnlySenderTold(Dispatch(Event(Cur), ws, msg, now), ws)

\* C23: when the handling of an inbound message raises an exception, the
\* sender is sent an error notice, no other session is sent anything, and
\* sessions, game state, storage and timers are what they were before the
\* message.
C23_ExceptionLeavesStateAlone ==
  \A ws \in Conns :
    Registered(ws) =>
      \A msg \in Traffic(ws), now \in Clock :
        (RaisesInHandler(Cur, ws, msg) \/ RaisesInNarration(Cur, ws, msg)) =>
          OnlySenderTold(Dispatch(Event(Cur), ws, msg, now), ws)
\* ------------------------------------------------------------ C24
\* C24: when the language-model call of an accepted turn fails while game
\* and overlay are running, the fallback response (answer "unrelated", score
\* 3, progress max(0, previous progress - 5)) is broadcast in place of the
\* model's and no error is; the question is counted in the overlay session,
\* the overlay stays attached with its session, and the turn passes to the
\* next participant, whose turn-change notice is staged.
C24_FallbackKeepsGameGoing ==
  \A i \in DOMAIN aiCalls :
    ( /\ aiCalls[i].turtle
      /\ turtleSoupActive /\ aiHostActive /\ aiHost = "active" ) =>
      LET r == AIReply(Event(Cur), aiCalls[i], FailedCall)
          fallback == [ answer |-> "unrelated", score |-> 3,
                        progress |-> IF currentSession.progress >= 5
                                     THEN currentSession.progress - 5 ELSE 0 ]
      IN /\ Sent(r, "aiResponse") # {}
         /\ \A k \in Sent(r, "aiResponse") : r.outbox[k].msg.response = fallback
         /\ Sent(r, "error") = {}
         /\ Sent(r, "aiGameSolved") = {}
         /\ r.currentSession.questionCount = currentSession.questionCount + 1
         /\ r.currentSession.progress = fallback.progress
         /\ r.aiHostActive /\ r.aiHost = "active" /\ r.turtleSoupActive
         /\ r.currentTurnIndex =
              (currentTurnIndex + 1) % Len(turtleSoupParticipants)
         /\ \E j \in DOMAIN r.timers : r.timers[j].kind = "aiTurnChange"

\* The language-model call of a turn failed after an earlier turn had brought
\* the progress up to 15: the fallback took 5 off, the session counts two
\* questions, the overlay is attached and the turn has moved on.
C24_Witness ==
  /\ turtleSoupActive /\ aiHostActive /\ aiHost = "active"
  /\ currentSession = [questionCount |-> 2, progress |-> 10]
  /\ \E k \in Sent(Cur, "aiResponse") :
       outbox[k].msg.response = [answer |-> "unrelated", score |-> 3, progress |-> 10]
  /\ \E j \in DOMAIN timers : timers[j].kind = "aiTurnChange"
\* ------------------------------------------------------------ C25
\* The members of the ticket's list whose accept is required.
Required(ticket, initiator) == Range(ticket.originalParticipants) \ {initiator}

\* C25: an accept is counted for the identity of the session that sent it and
\* only if that identity is a member of the ticket's frozen list other than
\* the initiator; so the game starts only on the accept that completes the
\* set of those members, each counted by its own accept.
C25_AcceptCountedForSender ==
  \A ws \in Conns, data \in ConfirmData :
    (Registered(ws) /\ data.confirmed /\ data.initiator \in DOMAIN pendingConfirmations) =>
      LET ticket == pendingConfirmations[data.initiator]
          sender == sessions[ws].name
          r == HandleTurtleSoupConfirmation(Event(Cur), ws, data)
      IN /\ data.initiator \in DOMAIN r.pendingConfirmations =>
              r.pendingConfirmations[data.initiator].confirmedUsers
                \subseteq ticket.confirmedUsers
                            \cup ({sender} \cap Required(ticket, data.initiator))
         /\ Sent(r, "turtleSoupStart") # {} =>
              /\ sender \in Required(ticket, data.initiator)
              /\ ticket.confirmedUsers \cup {sender} = Required(ticket, data.initiator)
\* ------------------------------------------------------------ C26
\* C26: a reply, accept or decline, of a participant whose accept the ticket
\* already holds changes nothing and is not broadcast: tickets, confirmed
\* sets, game state and everything else are as before, and nothing is sent.
C26_SecondReplyIgnored ==
  \A ws \in Conns, data \in ConfirmData :
    ( /\ Registered(ws)
      /\ data.user = sessions[ws].name
      /\ data.initiator \in DOMAIN pendingConfirmations
      /\ data.user \in pendingConfirmations[data.initiator].confirmedUsers ) =>
      HandleTurtleSoupConfirmation(Event(Cur), ws, data) = Event(Cur)

\* The same for a second accept alone.
SecondAcceptIgnored ==
  \A ws \in Conns, data \in ConfirmData :
    ( /\ Registered(ws)
      /\ data.confirmed
      /\ data.user = sessions[ws].name
      /\ data.initiator \in DOMAIN pendingConfirmations
      /\ data.user \in pendingConfirmations[data.initiator].confirmedUsers ) =>
      HandleTurtleSoupConfirmation(Event(Cur), ws, data) = Event(Cur)
\* ------------------------------------------------------------ C27
\* The room once the staged result and the staged turn-change notice of the
\* turn just scheduled in s have fired, nothing else arriving in between.
AfterStagedNotices(s, now) ==
  LET i == Len(s.timers)
      s1 == AIResponseTimeout(Disarm(Event(s), i), s.timers[i], now)
  IN TurnChangeTimeout(Disarm(Event(s1), Len(s1.timers)))

\* The turn-change notices among the sends of the last event.
TurnChangeNotices(s) ==
  { s.outbox[k].msg : k \in Sent(s, "turtleSoupTurnChange") }

\* C27: the accept that starts a game leaves the ticket's frozen list as the
\* participant list, turn index 0, a zero score for every participant and
\* participants[0] as the current player; when participants[0] then takes a
\* valid turn the index is 1, and the staged callbacks of that turn broadcast
\* one turn-change notice, with index 1 and participants[1] as next player.
C27_StartThenFirstTurn ==
  \A ws \in Conns, data \in ConfirmData :
    (Registered(ws) /\ data.initiator \in DOMAIN pendingConfirmations) =>
      LET ticket == pendingConfirmations[data.initiator]
          r == HandleTurtleSoupConfirmation(Event(Cur), ws, data)
          list == r.turtleSoupParticipants
      IN Sent(r, "turtleSoupStart") # {} =>
           /\ r.turtleSoupActive
           /\ list = ticket.originalParticipants
           /\ r.currentTurnIndex = 0
           /\ DOMAIN r.userScores = Range(list)
           /\ \A n \in Range(list) :
                r.userScores[n] = [totalScore |-> 0, questionCount |-> 0]
           /\ At(list, 0) # None /\ IsCurrentPlayer(r, At(list, 0))
           /\ \A w \in Named(r), text \in TurnTexts, now \in Clock, later \in Clock :
                r.sessions[w].name = At(list, 0) =>
                  LET turn == HandleChatMessage(Event(r), w, text, now)
                      done == AfterStagedNotices(turn, later)
                  IN /\ turn.currentTurnIndex = 1
                     /\ TurnChangeNotices(turn) = {}
                     /\ done.currentTurnIndex = 1
                     /\ Cardinality(TurnChangeNotices(done)) = 1
                     /\ \A m \in TurnChangeNotices(done) :
                          /\ m.turnIndex = 1
                          /\ m.nextPlayer = At(list, 1)
                          /\ m.nextPlayer # None
                     /\ \A x \in Named(done) :
                          Cardinality({ k \in Sent(done, "turtleSoupTurnChange") :
                                          done.outbox[k].to = x }) = 1

\* A game was started by B's accept of A's request, participants[0] has taken
\* the first turn, and the notice of index 1 naming participants[1] has just
\* been broadcast.
C27_Witness ==
  /\ turtleSoupActive
  /\ Len(turtleSoupParticipants) >= 2
  /\ currentTurnIndex = 1
  /\ userScores[At(turtleSoupParticipants, 0)].questionCount = 1
  /\ userScores[At(turtleSoupParticipants, 1)].questionCount = 0
  /\ TurnChangeNotices(Cur) # {}
  /\ \A m \in TurnChangeNotices(Cur) :
       m.turnIndex = 1 /\ m.nextPlayer = At(turtleSoupParticipants, 1)
\* ------------------------------------------------------------ C28
\* What is stored, read back, is the game state held in memory.
Persisted(s) ==
  LET r == RestoreGameState(s)
  IN /\ Mode(r) = Mode(s)
     /\ r.turtleSoupParticipants = s.turtleSoupParticipants
     /\ r.turtleSoupInitiator = s.turtleSoupInitiator
     /\ r.currentTurnIndex = s.currentTurnIndex
     /\ r.userScores = s.userScores
     /\ r.aiHostActive = s.aiHostActive
     /\ r.currentPuzzle = s.currentPuzzle

\* A handler's result: if it broadcast a notice of that type, what is stored
\* is the game state it left.
SavedIfSent(r, type) == Sent(r, type) # {} => Persisted(r)

\* Game start, game end, overlay start within a game and overlay end: the
\* handlers write the snapshot and then broadcast.
SavedAtStartAndEnd ==
  /\ \A ws \in Conns, data \in ConfirmData :
       (Registered(ws) /\ data.initiator \in DOMAIN pendingConfirmations) =>
         SavedIfSent(HandleTurtleSoupConfirmation(Event(Cur), ws, data),
                     "turtleSoupStart")
  /\ \A ws \in Conns :
       Registered(ws) =>
         SavedIfSent(HandleTurtleSoupEnd(Event(Cur), ws), "turtleSoupEnd")
  /\ \A ws \in Conns, data \in PuzzleData :
       Registered(ws) =>
         SavedIfSent(HandleTurtleSoupPuzzleSelected(Event(Cur), ws, data),
                     "turtleSoupPuzzleStart")
  /\ aiHostActive => SavedIfSent(EndAIHostMode(Event(Cur)), "aiHostEnd")

\* Ticket opened and turn accepted: the request handler and the staged
\* callback of a turn broadcast their notice.
SavedAtTicketAndTurn ==
  /\ \A ws \in Conns, data \in RequestData :
       Registered(ws) =>
         SavedIfSent(HandleTurtleSoupRequest(Event(Cur), ws, data),
                     "turtleSoupRequest")
  /\ \A i \in DOMAIN timers :
       timers[i].kind = "turnChange" =>
         SavedIfSent(TurnChangeTimeout(Disarm(Event(Cur), i)),
                     "turtleSoupTurnChange")

\* C28: for every transition of the game (ticket opened, game start, accepted
\* turn, overlay start, overlay end, game end) the handler has written the
\* snapshot of the new state by the time it broadcasts the notice: what is
\* stored then is the game state in memory.
C28_SavedBeforeBroadcast == SavedAtStartAndEnd /\ SavedAtTicketAndTurn

\* An accepted turn alone: the staged turn-change notice.
TurnNoticeSaved ==
  \A i \in DOMAIN timers :
    (turtleSoupActive /\ timers[i].kind = "turnChange") =>
      SavedIfSent(TurnChangeTimeout(Disarm(Event(Cur), i)), "turtleSoupTurnChange")
\* ------------------------------------------------------------ C29
\* The overlay-end notice goes out before the game-end notice.
OverlayEndNoticeFirst ==
  \A ws \in Conns :
    ( /\ Registered(ws) /\ turtleSoupActive /\ aiHostActive
      /\ sessions[ws].name = turtleSoupInitiator ) =>
      LET r == HandleTurtleSoupEnd(Event(Cur), ws)
      IN /\ Sent(r, "aiHostEnd") # {} /\ Sent(r, "turtleSoupEnd") # {}
         /\ \A j \in Sent(r, "aiHostEnd"), k \in Sent(r, "turtleSoupEnd") : j < k

\* C29: when the initiator ends a game that has the overlay attached, the
\* overlay is torn down (session dropped, overlay fields reset) while the base
\* game state is still in place: mode, participants, scores and turn index
\* are cleared only afterwards; and the overlay-end notice goes out before
\* the game-end notice.
C29_OverlayDownFirst ==
  /\ OverlayEndNoticeFirst
  /\ \A ws \in Conns :
       ( /\ Registered(ws) /\ turtleSoupActive /\ aiHostActive
         /\ sessions[ws].name = turtleSoupInitiator ) =>
         LET down == EndTurtleSoupOverlay(Event(Cur))
             r == HandleTurtleSoupEnd(Event(Cur), ws)
         IN /\ ~down.aiHostActive /\ down.currentSession = NoSession
            /\ down.turtleSoupActive
            /\ down.turtleSoupParticipants = turtleSoupParticipants
            /\ down.userScores = userScores
            /\ down.currentTurnIndex = currentTurnIndex
            /\ ~r.turtleSoupActive /\ r.turtleSoupParticipants = << >>
\* ------------------------------------------------------------ C30
\* C30: whenever the game fields are loaded and say the overlay is attached,
\* after a restart as before it, the room holds a narration handle, and the
\* turn text of the current player is put to the collaborator: no error
\* notice is sent for it.
C30_HandleReattached ==
  (gameStateInitialized /\ turtleSoupActive /\ aiHostActive) =>
    /\ aiHost # "null"
    /\ \A ws \in Conns, text \in OverlayTurnTexts, now \in Clock :
         (Registered(ws) /\ IsCurrentPlayer(Cur, sessions[ws].name)) =>
           LET r == HandleChatMessage(Event(Cur), ws, text, now)
           IN /\ Sent(r, "error") = {}
              /\ Len(r.aiCalls) = Len(aiCalls) + 1
\* ------------------------------------------------------------ C31
\* A throw of the first fetch() is answered by a POST on a fresh stub and by
\* no report; only a throw of that second POST is reported, once, and the
\* proxy then stays in cooldown.
RetriesOnce ==
  [][\A p \in Proxies :
       LET before == callLimiter[p]
           after == callLimiter'[p]
       IN /\ (before.at = "fetch" /\ after.at # "fetch") =>
               /\ after.at \in {"sleep", "retry"}
               /\ after.reports = before.reports
          /\ (before.at = "retry" /\ after.at # "retry") =>
               after.at \in {"sleep", "failed"}
          /\ after.reports # before.reports =>
               /\ before.at = "retry" /\ after.at = "failed"
               /\ before.reports = 0 /\ after.reports = 1
          /\ before.at = "failed" => (after = before /\ inCooldown'[p])]_vars

\* A call that checkLimit() started ends with inCooldown cleared or with the
\* one report.
CallSettles ==
  \A p \in Proxies :
    (callLimiter[p].at = "fetch") ~> (~inCooldown[p] \/ callLimiter[p].reports = 1)

\* C31: the proxy never stalls: a consume call that fails is retried once on
\* a fresh stub, and every checkLimit() that returned true is followed in the
\* end by the cooldown being cleared or by exactly one call of the error
\* callback.
C31_NeverStalls == RetriesOnce /\ CallSettles

\* One proxy's call failed twice and was reported once; the other's was
\* served after the first second, its sleep is over and its cooldown cleared.
C31_Witness ==
  \E p, q \in Proxies :
    /\ callLimiter[p].at = "failed" /\ callLimiter[p].reports = 1 /\ inCooldown[p]
    /\ callLimiter[q].at = "idle" /\ callLimiter[q].wake > 0 /\ ~inCooldown[q]
    /\ clock >= callLimiter[q].wake
\* ------------------------------------------------------------ C32
\* The identified sessions an event takes out of the registry.
Leavers ==
  { w \in DOMAIN sessions : sessions[w].name # None /\ w \notin DOMAIN sessions' }

\* The sends of the event that announce something new: all but the queue a
\* session registering in this event is sent first.
Announced ==
  LET joiners == { w \in DOMAIN sessions \cap DOMAIN sessions' :
                     sessions[w].name = None /\ sessions'[w].name # None }
      replayed == IF joiners = {} THEN 0
                  ELSE Len(sessions[CHOOSE w \in joiners : TRUE].blockedMessages)
  IN { i \in DOMAIN outbox' : i > replayed }

\* The quit announcements of name n the event sent to connection r.
QuitsSent(n, r) ==
  Cardinality({ i \in Announced : outbox'[i] = [to |-> r, msg |-> Quit(n)] })

\* Every registered live session left is sent one quit per identified session
\* that left, and a close takes the connection out of the registry.
EachLeaveAnnouncedOnce ==
  /\ \A n \in Names, r \in Receivers(Cur)' :
       QuitsSent(n, r) = Cardinality({ w \in Leavers : sessions[w].name = n })
  /\ \A i \in Announced :
       outbox'[i].msg.type = "quit" => outbox'[i].to \in Receivers(Cur)'
  /\ \A w \in 1..nextWs :
       (connState[w] # "closed" /\ connState'[w] = "closed") => w \notin DOMAIN sessions'

\* A broadcast sends the message to every registered live session first and
\* the quits of the sessions whose send failed after that, and leaves none of
\* those sessions in the registry.
QuitsAfterThePass ==
  \A n \in Names :
    LET s == Event(Cur)
        r == Broadcast(s, Joined(n))
        to == SortedSeq(Receivers(s))
    IN /\ Len(r.outbox) >= Len(to)
       /\ \A i \in 1..Len(to) : r.outbox[i] = [to |-> to[i], msg |-> Joined(n)]
       /\ \A i \in (Len(to) + 1)..Len(r.outbox) : r.outbox[i].msg.type = "quit"
       /\ Named(r) \cap Dead(r) = {}
       /\ (Named(s) \cap Dead(s) # {} /\ to # << >>) =>
            \E i \in (Len(to) + 1)..Len(r.outbox) : r.outbox[i].msg.type = "quit"

\* C32: each leave of an identified session (its close or error event, or a
\* send to it failing during a broadcast) takes the session out of the
\* registry and is announced by exactly one quit to the sessions that remain;
\* the quits for failed sends follow the pass that found them, and the close
\* event that comes later for such a connection announces nothing.
C32_QuitOncePerLeave == [][EachLeaveAnnouncedOnce]_vars /\ []QuitsAfterThePass

\* A send to a dead connection has failed in a broadcast: the connection,
\* its close event still to come, is out of the registry and its quit was
\* sent to a session that remains.
C32_Witness ==
  \E w \in 1..nextWs, r \in DOMAIN sessions :
    /\ connState[w] = "broken"
    /\ w \notin DOMAIN sessions
    /\ \E i \in DOMAIN outbox : outbox[i].to = r /\ outbox[i].msg.type = "quit"
\* ------------------------------------------------------------ C33
\* The persisted message records, oldest first, and the most recent of them.
MessageRecords(s) ==
  LET keys == SortedSeq(DOMAIN s.msgLog)
  IN [i \in 1..Len(keys) |-> s.msgLog[keys[i]]]

RecentRecords(s) ==
  LET all == MessageRecords(s)
  IN SubSeq(all, Max(1, Len(all) - BacklogLimit + 1), Len(all))

\* What an accepted connection finds queued behind the roster.
BacklogIsRecentRecords ==
  nextWs < MaxConn =>
    LET s == Event(Cur)
        queue == HandleSession(s).sessions[s.nextWs + 1].blockedMessages
        backlog == SubSeq(queue, Cardinality(Named(s)) + 1, Len(queue))
    IN /\ backlog = RecentRecords(s)
       /\ \A i, j \in DOMAIN backlog :
            i < j => backlog[i].timestamp < backlog[j].timestamp

\* The handshake sends the queue in its order, then whatever else, and the
\* ready notice last.
QueueDeliveredFirst ==
  \A w \in DOMAIN sessions :
    (sessions[w].name = None /\ connState[w] = "open") =>
      \A data \in DistinctSetupData(w) :
        LET queue == sessions[w].blockedMessages
            sent == HandleUserSetup(Event(Cur), w, data).outbox
        IN /\ Len(sent) > Len(queue)
           /\ \A i \in 1..Len(queue) : sent[i] = [to |-> w, msg |-> queue[i]]
           /\ \A i \in DOMAIN sent :
                sent[i] = [to |-> w, msg |-> Ready] <=> i = Len(sent)

\* C33: the backlog queued for a newly accepted connection is exactly the
\* most recent persisted message records, at most 100, in increasing
\* timestamp order, and the handshake delivers everything queued, first in
\* first out, before the ready notice.
C33_BacklogThenReady == BacklogIsRecentRecords /\ QueueDeliveredFirst
\* ------------------------------------------------------------ C34
\* A chat text of 300 characters.
LongTexts == { [len |-> 300, kw |-> "why"] }

\* The room after an event that told ws of an error and did nothing else.
OnlyErrorTo(r, ws) ==
  /\ Len(r.outbox) = 1
  /\ r.outbox[1].to = ws
  /\ r.outbox[1].msg.type = "error"
  /\ [r EXCEPT !.outbox = << >>] = Event(Cur)

\* An identity claim over 32 characters: an error, the connection closed, no
\* identity registered and nothing announced.
LongNameRejected ==
  \A ws \in DOMAIN sessions :
    (sessions[ws].name = None /\ connState[ws] = "open") =>
      \A request \in BOOLEAN :
        LET r == HandleUserSetup(Event(Cur), ws,
                                 [name |-> LongName, requestGameState |-> request])
        IN /\ r.outbox = << [to |-> ws, msg |-> ErrorMsg("name too long")] >>
           /\ r.connState[ws] # "open"
           /\ r.sessions[ws].name = None
           /\ r.attachments = attachments

\* A chat text over 256 characters: an error to the sender, nothing
\* broadcast, nothing persisted, no field changed.
LongTextRejected ==
  \A ws \in DOMAIN sessions :
    (sessions[ws].name # None /\ connState[ws] = "open") =>
      \A text \in LongTexts, now \in Clock :
        OnlyErrorTo(HandleChatMessage(Event(Cur), ws,
                                      [ message |-> text, turtleSoupMessage |-> FALSE,
                                        aiHostQuestion |-> FALSE ], now),
                    ws)

\* C34: oversized input is rejected without any state change: a claim longer
\* than 32 characters gets an error and the connection is closed, with no
\* identity registered and no join announced; a chat text longer than 256
\* characters gets an error to the sender and is neither broadcast nor
\* persisted.
C34_OversizedRejected == LongNameRejected /\ LongTextRejected
\* ------------------------------------------------------------ C35
\* C35: a game request received while fewer than two identities are online
\* is answered with an error notice to the requester alone: no ticket is
\* opened, no timer armed, nothing broadcast.
C35_TooFewParticipants ==
  \A ws \in DOMAIN sessions :
    ( /\ sessions[ws].name # None /\ connState[ws] = "open"
      /\ Len(OnlineUsers(Cur)) < 2 ) =>
      \A data \in OwnRequestData(ws) :
        OnlyErrorTo(HandleTurtleSoupRequest(Event(Cur), ws, data), ws)
\* ------------------------------------------------------------ C36
\* The timer armed with ticket k is still to fire: 30 seconds have not passed
\* since the request that opened it.
OwnTimerArmed(tms, ticket) ==
  \E i \in DOMAIN tms : tms[i].kind = "confirm" /\ tms[i].id = ticket.id

\* C36: an expiry timer discards only the ticket it was armed for: a ticket
\* is never discarded with the timeout error announced while its own timer
\* is still to fire, also when the same initiator had an earlier ticket that
\* was declined or completed.
C36_TimerOfItsOwnTicket ==
  [][\A k \in DOMAIN pendingConfirmations :
       ( /\ k \notin DOMAIN pendingConfirmations'
         /\ \E j \in DOMAIN outbox' : outbox'[j].msg = ErrorMsg("request timeout") )
       => ~OwnTimerArmed(timers', pendingConfirmations[k])]_vars
\* ------------------------------------------------------------ C37
\* A narration call for an accepted turn is outstanding.
TurnInFlight == \E i \in DOMAIN aiCalls : aiCalls[i].turtle

\* C37: with the overlay attached at most one turn is in flight: while the
\* narration call of an accepted turn is outstanding, a turn text of any
\* session, the same player's included, is not accepted (it starts no
\* further call), so that each value of the turn index admits one accepted
\* turn.
C37_OneTurnInFlight ==
  (turtleSoupActive /\ aiHostActive /\ TurnInFlight) =>
    \A ws \in DOMAIN sessions, data \in OverlayTurnTexts, now \in Clock :
      (sessions[ws].name # None /\ connState[ws] = "open") =>
        HandleChatMessage(Event(Cur), ws, data, now).aiCalls = aiCalls
\* ------------------------------------------------------------ C38
\* The game fields as endTurtleSoup() leaves them.
Cleared(s) ==
  /\ ~s.turtleSoupActive
  /\ s.turtleSoupParticipants = << >>
  /\ s.currentTurnIndex = 0
  /\ s.userScores = << >>

\* The room after the staged callback i of a game has run.
StagedCallback(i, now) ==
  LET s == Disarm(Event(Cur), i)
  IN CASE timers[i].kind = "aiResponse" -> AIResponseTimeout(s, timers[i], now)
       [] timers[i].kind = "turnChange" -> TurnChangeTimeout(s)
       [] timers[i].kind = "aiTurnChange" -> AITurnChangeTimeout(s)

\* The room after the narration call i has replied.
NarrationReplied(i, outcome) ==
  AIReply([Event(Cur) EXCEPT !.aiCalls =
             SubSeq(aiCalls, 1, i - 1) \o SubSeq(aiCalls, i + 1, Len(aiCalls))],
          aiCalls[i], outcome)

\* C38: once a game has ended, what was scheduled or outstanding for it has
\* no effect: a staged turn result or turn-change notice is not broadcast
\* after the end notice, and a staged callback or a narration reply that
\* completes leaves the cleared state (no participants, turn index 0, no
\* scores) as it is.
C38_NothingAfterTheEnd ==
  Cleared(Cur) =>
    /\ \A i \in DOMAIN timers, now \in Clock :
         (CanFire(i) /\ timers[i].kind # "confirm") =>
           LET r == StagedCallback(i, now)
           IN r.outbox = << >> /\ Cleared(r)
    /\ \A i \in DOMAIN aiCalls, outcome \in AIOutcomes :
         aiCalls[i].turtle =>
           LET r == NarrationReplied(i, outcome)
           IN /\ Cleared(r)
              /\ \A j \in DOMAIN r.outbox :
                   r.outbox[j].msg.type \notin {"aiResponse", "turtleSoupTurnChange"}

\* ... of which the staged callbacks alone,
StagedCallbacksSilent ==
  Cleared(Cur) =>
    \A i \in DOMAIN timers, now \in Clock :
      (CanFire(i) /\ timers[i].kind # "confirm") =>
        StagedCallback(i, now).outbox = << >>

\* ... and the narration replies alone.
RepliesLeaveCleared ==
  Cleared(Cur) =>
    \A i \in DOMAIN aiCalls, outcome \in AIOutcomes :
      aiCalls[i].turtle => Cleared(NarrationReplied(i, outcome))
\* ------------------------------------------------------------ C39
\* The object was constructed again and has accepted no chat message since:
\* records are stored and lastTimestamp is the constructor's 0.
JustRestarted == lastTimestamp = 0 /\ DOMAIN msgLog # {}

\* C39: the first chat message accepted after a restart gets a timestamp
\* later than that of every record persisted before the restart, whatever
\* the clock reads then, and no earlier record is overwritten.
C39_TimestampsAcrossRestart ==
  JustRestarted =>
    \A ws \in DOMAIN sessions, data \in ChatData, now \in Clock :
      (sessions[ws].name # None /\ connState[ws] = "open") =>
        LET r == HandleChatMessage(Event(Cur), ws, data, now)
        IN /\ \A k \in DOMAIN msgLog :
                /\ r.lastTimestamp > k
                /\ r.msgLog[k] = msgLog[k]
\* ------------------------------------------------------------ C40
\* A step that processes a question of the session.
QuestionProcessed ==
  /\ aiHost = "active" /\ aiHost' = "active"
  /\ currentSession'.questionCount = currentSession.questionCount + 1

\* The progress of the session stays within 0..100.
ProgressInRange == currentSession.progress \in 0..100

\* One processed question moves the progress by -10 at least, +15 at most.
ChangeLimited ==
  QuestionProcessed =>
    /\ currentSession'.progress - currentSession.progress >= -10
    /\ currentSession'.progress - currentSession.progress <= 15

\* A progress that counts as solved takes seven processed questions.
NotSolvedEarly ==
  currentSession.progress >= 95 => currentSession.questionCount >= 7

\* C40: in a session of the narration collaborator the progress stays
\* within 0..100, each processed question changes it by +15 at most and -10
\* at least, and, the progress starting at 0, it is not at the solved
\* threshold of 95 before the seventh processed question.
C40_ProgressSmoothed ==
  /\ []ProgressInRange
  /\ [][ChangeLimited]_vars
  /\ []NotSolvedEarly

\* The seventh question of a session is processed and brings the progress
\* to the solved threshold.
C40_Witness ==
  /\ aiHost = "active"
  /\ currentSession.questionCount = 7
  /\ CheckIfSolved(currentSession)
====
